---- MODULE Spec2Model ----
(***************************************************************************)
(* FailFixer: the output validator (core/validator.py), the G-code parser  *)
(* (core/gcode_parser.py), the layer mapper (core/layer_mapper.py), the    *)
(* resume generator (core/resume_generator.py) and the pipeline controller *)
(* (app/controller.py).                                                    *)
(*                                                                         *)
(* Lengths are integers in hundredths of a millimetre (0.15 mm = 15), so   *)
(* the decimal literals of the G-code are exact; binary floating-point     *)
(* rounding is outside the model.  A G-code line is a record of the tokens *)
(* the validator's string tests and regular expressions look at.           *)
(***************************************************************************)
EXTENDS Integers, Sequences, FiniteSets, TLC

VARIABLES
    vLines,      \* validate(): the `lines` argument
    vResumeZ,    \* validate(): the `resume_z` argument
    vMode,       \* validate(): "default" (no resume_mode keyword) or the keyword's value
    vpc,         \* "input" before the call, "returned" or "raised" after it
    vResult,     \* the ValidationResult returned: [issues, ok, warnings, errors]
    cLayers,     \* Controller.run: parsed.layers of the input file
    cRequest,    \* Controller.run: the ResumeRequest
    cpc,         \* Controller.run: position in the pipeline
    cMatch,      \* Controller.run: the local `match` (a LayerMatch)
    cGen,        \* Controller.run: the layer handed to the generator, or NoLayer
    cError,      \* Controller.run: the exception that ended the run, or "none"
    cFile,       \* the output directory: the set of output paths written
    cReturn,     \* what the caller got back: the result's layer_match layer, or NoLayer
    cApi,        \* "run" (Controller.run) or "process" (FailFixerController.process)
    cTemps,      \* Controller.run: parsed.state.bed_temp / nozzle_temp
    cValidation, \* Controller.run: "none", or how step 6 ended: "TypeError", "errors", "ok"
    cWarnings,   \* Controller.run: the local `warnings` list
    cConfig,     \* Controller.run: the local `config` (a ResumeConfig), or NoConfig
    cResult,     \* the ResumeResult the caller got back: [returned, warnings]
    pLines,      \* parse_string(): the lines of the text
    ppc,         \* "input" before the call, "returned" after it
    pResult,     \* the ParsedGCode returned: [layers, detection_method, state]
    mLayers,     \* LayerMapper: self._layers
    mCall,       \* LayerMapper: the last call, [method, arg], method "none" before the first
    mOutcome,    \* LayerMapper: how the last call ended: "none", "returned", "KeyError", "ValueError"
    mResult,     \* LayerMapper: the LayerMatch the last call returned, or NoMatch
    gLines,      \* generate(): parsed.lines, the lines of the source file
    gStart,      \* generate(): match.layer.start_line, a 0-based index into the lines
    gConfig,     \* generate(): the ResumeConfig
    gpc,         \* "input" before the call, "returned" after it
    gOut,        \* generate(): the output lines returned
    rInput,      \* two runs of one Controller: each run's parsed file and request
    rpc,         \* each run's position in the pipeline
    rMatch,      \* each run's local `match`
    rConfig,     \* each run's local `config`
    rWarnings,   \* the warnings lists, by the list each run appends to
    rError,      \* the exception that ended each run, or "none"
    rResult,     \* the ResumeResult each run returned
    rFiles       \* the file system: the output files written, [path, layer]

vvars == <<vLines, vResumeZ, vMode, vpc, vResult>>
cvars == <<cLayers, cRequest, cpc, cMatch, cGen, cError, cFile, cReturn, cApi,
           cTemps, cValidation, cWarnings, cConfig, cResult>>
pvars == <<pLines, ppc, pResult>>
mvars == <<mLayers, mCall, mOutcome, mResult>>
gvars == <<gLines, gStart, gConfig, gpc, gOut>>
rvars == <<rInput, rpc, rMatch, rConfig, rWarnings, rError, rResult, rFiles>>
vars == <<vLines, vResumeZ, vMode, vpc, vResult,
          cLayers, cRequest, cpc, cMatch, cGen, cError, cFile, cReturn, cApi,
          cTemps, cValidation, cWarnings, cConfig, cResult,
          pLines, ppc, pResult, mLayers, mCall, mOutcome, mResult,
          gLines, gStart, gConfig, gpc, gOut,
          rInput, rpc, rMatch, rConfig, rWarnings, rError, rResult, rFiles>>

(***************************************************************************)
(* Bounds                                                                  *)
(***************************************************************************)
MaxLines == 3
MaxLayers == 3
MaxDocLines == 4
MaxTempLines == 3
MaxSourceLines == 3

(***************************************************************************)
(* G-code lines                                                            *)
(***************************************************************************)
EndHeaderText == "; --- End Resume Header ---"
BeginHeaderText == "; --- FailFixer Resume Header ---"
ResumeBannerText == "; === Resume Print from Layer 2 (Z 0.600 mm) ==="

\* The comment texts of the model that start with "; === Resume Print from Layer".
StartsWithResumeBanner(text) == text \in {ResumeBannerText}

Blank ==
    [kind |-> "blank", text |-> "", letter |-> "", digits |-> <<>>,
     X |-> FALSE, Y |-> FALSE, Zletter |-> FALSE, Znum |-> FALSE, Zval |-> 0,
     Snum |-> FALSE, Sval |-> 0, Rnum |-> FALSE, Rval |-> 0, tailZ |-> FALSE,
     Zdp |-> 0]

Comment(t) == [Blank EXCEPT !.kind = "comment", !.text = t]

\* A command word: a letter and its digits, "G28" = Cmd("G", <<2, 8>>).
Cmd(l, d) == [Blank EXCEPT !.kind = "cmd", !.letter = l, !.digits = d]

WithXY(c) == [c EXCEPT !.X = TRUE, !.Y = TRUE]
WithX(c) == [c EXCEPT !.X = TRUE]
\* The decimals of the shortest decimal literal of z / 100: Z10, Z0.6, Z0.45.
Decimals(z) == IF z % 100 = 0 THEN 0 ELSE IF z % 10 = 0 THEN 1 ELSE 2
\* "Z<number>": Zdp is the number of decimals the number is written with.
WithZ(c, z) == [c EXCEPT !.Zletter = TRUE, !.Znum = TRUE, !.Zval = z, !.Zdp = Decimals(z)]
WithBareZ(c) == [c EXCEPT !.Zletter = TRUE]
WithS(c, s) == [c EXCEPT !.Snum = TRUE, !.Sval = s]
WithR(c, r) == [c EXCEPT !.Rnum = TRUE, !.Rval = r]
\* a trailing "; ... Z ..." comment after the command
WithTailZ(c) == [c EXCEPT !.tailZ = TRUE]

G0 == Cmd("G", <<0>>)
G1 == Cmd("G", <<1>>)
G2 == Cmd("G", <<2>>)
G10 == Cmd("G", <<1, 0>>)
G28 == Cmd("G", <<2, 8>>)
M104 == Cmd("M", <<1, 0, 4>>)
M109 == Cmd("M", <<1, 0, 9>>)
M140 == Cmd("M", <<1, 4, 0>>)
M190 == Cmd("M", <<1, 9, 0>>)
M2 == Cmd("M", <<2>>)

\* The lines validate() is applied to.
ValLines ==
    { Blank, Comment(EndHeaderText), Comment(ResumeBannerText), Comment(BeginHeaderText),
      WithZ(G1, 40), WithZ(G1, 50), WithZ(G1, 1000),
      WithXY(G1), WithX(G0), WithZ(WithXY(G1), 40),
      WithZ(G10, 40), WithXY(G10),
      G28, WithBareZ(G28), WithTailZ(WithX(G28)), WithBareZ(WithXY(G28)),
      WithS(M140, 60), WithS(M190, 0), WithR(M190, 60),
      WithS(M104, 200), WithS(M109, 0), WithR(M109, 205),
      WithXY(G2), M2 }

ResumeZs == {0, 100}

(***************************************************************************)
(* core/validator.py                                                       *)
(***************************************************************************)
VALID_G == {0, 1, 4, 10, 11, 20, 21, 28, 29, 80, 90, 91, 92}

VALID_M ==
    {0, 1, 17, 18, 19, 20, 21, 24, 25, 26, 27, 28, 29, 30, 31, 32, 33,
     42, 73, 75, 76, 77, 78, 80, 81, 82, 83, 84, 85,
     92, 104, 105, 106, 107, 108, 109, 110, 111, 112,
     114, 115, 116, 117, 118, 119, 120, 121, 122,
     140, 141, 143, 149, 150, 155, 163, 164, 190, 191,
     200, 201, 202, 203, 204, 205, 206, 207, 208, 209,
     210, 211, 212, 218, 220, 221, 226,
     240, 250, 251, 260, 261, 280, 281, 290, 291,
     300, 301, 302, 303, 304, 305,
     400, 401, 402, 403, 404, 405, 406, 407, 408,
     420, 421, 422, 423, 425,
     500, 501, 502, 503, 504, 505, 510, 511, 512,
     524, 540, 552, 569, 575, 593,
     600, 601, 602, 603, 605, 665,
     701, 702, 703, 704, 710, 851, 852, 860, 861, 862,
     900, 906, 907, 908, 910, 911, 912, 913, 914, 915,
     997, 998, 999}

\* 0.5 mm, the margin of the Z-collision check
CollisionMargin == 50

\* int(m.group(1)) of ^G(\d+) / ^M(\d+)
RECURSIVE DigitsValue(_)
DigitsValue(d) ==
    IF d = <<>> THEN 0 ELSE 10 * DigitsValue(SubSeq(d, 1, Len(d) - 1)) + d[Len(d)]

\* cmd_upper.startswith(letter + digits)
StartsWith(line, l, d) ==
    /\ line.letter = l
    /\ Len(line.digits) >= Len(d)
    /\ SubSeq(line.digits, 1, Len(d)) = d

\* cmd_upper.startswith(("G0", "G1"))
StartsWithG0G1(line) == StartsWith(line, "G", <<0>>) \/ StartsWith(line, "G", <<1>>)

\* _RE_Z_PARAM.search(cmd_upper): a Z followed by a number
ZMatch(line) == line.Znum
\* _RE_X_PARAM / _RE_Y_PARAM
XMatch(line) == line.X
YMatch(line) == line.Y
\* _RE_S_PARAM.search(cmd_upper): the letter S (only) followed by an unsigned number
SMatch(line) == line.Snum

Issue(sev, n, code) == [severity |-> sev, line_number |-> n, code |-> code]

ScanInit ==
    [has_bed_temp |-> FALSE, has_nozzle_temp |-> FALSE, has_z_lift |-> FALSE,
     has_xy_move |-> FALSE, first_xy_line |-> 0, first_z_line |-> 0,
     current_z |-> 0, in_header |-> TRUE, issues |-> <<>>]

\* A faulty variant: any comment line clears in_header
ClearsHeader_AnyComment(line) == line.kind = "comment"

\* Leaves the header: the two comment texts that clear in_header.
ClearsHeader(line) ==
    line.text = EndHeaderText \/ StartsWithResumeBanner(line.text)

UnusualG(line) ==
    line.letter = "G" /\ line.digits # <<>> /\ DigitsValue(line.digits) \notin VALID_G

UnusualM(line) ==
    line.letter = "M" /\ line.digits # <<>> /\ DigitsValue(line.digits) \notin VALID_M

BedTempLine(line) ==
    /\ StartsWith(line, "M", <<1, 4, 0>>) \/ StartsWith(line, "M", <<1, 9, 0>>)
    /\ SMatch(line) /\ line.Sval > 0

NozzleTempLine(line) ==
    /\ StartsWith(line, "M", <<1, 0, 4>>) \/ StartsWith(line, "M", <<1, 0, 9>>)
    /\ SMatch(line) /\ line.Sval > 0

ZMoveLine(line) == ZMatch(line) /\ StartsWithG0G1(line)
XYMoveLine(line) == (XMatch(line) \/ YMatch(line)) /\ StartsWithG0G1(line)

\* A faulty variant: the margin itself counts as a collision
ZCollisionLine_Inclusive(st, line, resume_z) ==
    ~st.in_header /\ ZMoveLine(line) /\ line.Zval <= resume_z - CollisionMargin

ZCollisionLine(st, line, resume_z) ==
    ~st.in_header /\ ZMoveLine(line) /\ line.Zval < resume_z - CollisionMargin

\* A faulty variant: every G28 line counts as homing Z
ZHomeLine_AnyG28(line) == StartsWith(line, "G", <<2, 8>>)

\* A faulty variant: looks for a Z with a number, as the movement checks do
ZHomeLine_NeedsNumber(line) == StartsWith(line, "G", <<2, 8>>) /\ ZMatch(line)

\* "Z" in cmd_upper, for a line that starts with G28
ZHomeLine(line) == StartsWith(line, "G", <<2, 8>>) /\ line.Zletter

Append1(s, cond, e) == IF cond THEN Append(s, e) ELSE s

\* One iteration of the scan loop over a command line.
ScanCommand(st, line, n, resume_z) ==
    LET i1 == Append1(st.issues, UnusualG(line), Issue("WARNING", n, "UNUSUAL_G"))
        i2 == Append1(i1, UnusualM(line), Issue("WARNING", n, "UNUSUAL_M"))
        i3 == Append1(i2, ZCollisionLine(st, line, resume_z),
                      Issue("WARNING", n, "Z_COLLISION"))
        i4 == Append1(i3, ZHomeLine(line), Issue("ERROR", n, "Z_HOME"))
        firstZ == ZMoveLine(line) /\ ~st.has_z_lift
        firstXY == XYMoveLine(line) /\ ~st.has_xy_move
    IN [st EXCEPT
          !.has_bed_temp = @ \/ BedTempLine(line),
          !.has_nozzle_temp = @ \/ NozzleTempLine(line),
          !.current_z = IF ZMoveLine(line) THEN line.Zval ELSE @,
          !.has_z_lift = @ \/ ZMoveLine(line),
          !.first_z_line = IF firstZ THEN n ELSE @,
          !.has_xy_move = @ \/ XYMoveLine(line),
          !.first_xy_line = IF firstXY THEN n ELSE @,
          !.issues = i4]

\* One iteration of the scan loop.
ScanLine(st, line, n, resume_z) ==
    IF line.kind = "blank" THEN st
    ELSE IF line.kind = "comment"
         THEN IF ClearsHeader(line) THEN [st EXCEPT !.in_header = FALSE] ELSE st
         ELSE ScanCommand(st, line, n, resume_z)

RECURSIVE Scan(_, _, _)
Scan(lines, k, resume_z) ==
    IF k = 0 THEN ScanInit
    ELSE ScanLine(Scan(lines, k - 1, resume_z), lines[k], k, resume_z)

\* XY_BEFORE_Z: the first XY move has no Z move at or before it.
XYBeforeZ(st) ==
    /\ st.has_xy_move /\ st.first_xy_line # 0
    /\ (st.first_z_line = 0 \/ st.first_z_line > st.first_xy_line)

PostScan(st) ==
    LET i1 == Append1(st.issues, ~st.has_bed_temp, Issue("ERROR", 0, "MISSING_BED_TEMP"))
        i2 == Append1(i1, ~st.has_nozzle_temp, Issue("ERROR", 0, "MISSING_NOZZLE_TEMP"))
    IN Append1(i2, XYBeforeZ(st), Issue("ERROR", st.first_xy_line, "XY_BEFORE_Z"))

\* Validator.validate(lines, resume_z): the issue list
Validate(lines, resume_z) == PostScan(Scan(lines, Len(lines), resume_z))

\* ValidationResult.ok / .warnings / .errors
IsError(i) == i.severity = "ERROR"
IsWarning(i) == i.severity = "WARNING"
\* A faulty variant: any issue fails the result
Ok_NoIssues(issues) == issues = <<>>
Ok(issues) == ~\E k \in 1..Len(issues) : IsError(issues[k])
Warnings(issues) == SelectSeq(issues, IsWarning)
Errors(issues) == SelectSeq(issues, IsError)

ValidationResult(issues) ==
    [issues |-> issues, ok |-> Ok(issues),
     warnings |-> Warnings(issues), errors |-> Errors(issues)]

NoResult == ValidationResult(<<>>)

\* The parameters of Validator.validate after self.
ValidateParams == {"lines", "resume_z", "safe_lift_z"}

\* Python binds a call's keywords to the parameters or raises TypeError.
CallBinds(keywords) == keywords \subseteq ValidateParams

\* The keywords of a direct call: validate(lines, resume_z=..) with or without resume_mode=
DirectKeywords(mode) ==
    IF mode = "default" THEN {"lines", "resume_z"} ELSE {"lines", "resume_z", "resume_mode"}

(***************************************************************************)
(* core/resume_generator.py is not in the source tree: the header it       *)
(* writes, from section 4.3 of the specification.                          *)
(***************************************************************************)
\* A faulty variant: the header travels without the lift
GenerateHeader_NoLift(config) ==
    << Comment(BeginHeaderText),
       IF config.resume_mode = "in_air" THEN WithXY(G28) ELSE G28,
       WithS(M140, config.bed_temp), WithS(M104, config.nozzle_temp),
       WithS(M190, config.bed_temp), WithS(M109, config.nozzle_temp),
       Comment(EndHeaderText) >>

GenerateHeader(config) ==
    << Comment(BeginHeaderText),
       IF config.resume_mode = "in_air" THEN WithXY(G28) ELSE G28,
       WithS(M140, config.bed_temp), WithS(M104, config.nozzle_temp),
       WithS(M190, config.bed_temp), WithS(M109, config.nozzle_temp),
       WithZ(G1, config.resume_z + config.z_offset_mm + config.safe_lift_mm),
       Comment(EndHeaderText) >>

\* A motion command: G0 or G1.
IsMotionCommand(line) ==
    line.kind = "cmd" /\ line.letter = "G" /\ line.digits \in {<<0>>, <<1>>}

\* A faulty variant: the Z of a body move is kept as it is in the source
RebaseZ_Verbatim(line, resume_z) == line

\* from_plate: the Z parameter of a motion command becomes its value minus the
\* resume Z, written with 3 decimals; the rest of the line is kept.
RebaseZ(line, resume_z) ==
    IF IsMotionCommand(line) /\ line.Znum
    THEN [line EXCEPT !.Zval = @ - resume_z, !.Zdp = 3]
    ELSE line

\* The body: the source lines from start_line (0-based) to the end, copied
\* verbatim in in_air mode, with Z rebased in from_plate mode.
GenerateBody(lines, start_line, config) ==
    [k \in 1..(Len(lines) - start_line) |->
        IF config.resume_mode = "from_plate"
        THEN RebaseZ(lines[start_line + k], config.resume_z)
        ELSE lines[start_line + k]]

\* ResumeGenerator.generate(parsed, match, config): the header, then the body.
GenerateLines(lines, start_line, config) ==
    GenerateHeader(config) \o GenerateBody(lines, start_line, config)

(***************************************************************************)
(* core/layer_mapper.py                                                    *)
(***************************************************************************)
NoLayer == [number |-> -1, z_height |-> 0, start_line |-> -1]
NoMatch == [layer |-> NoLayer, exact |-> FALSE, delta_mm |-> 0, warning |-> FALSE]

LayerMatch(layer, exact, delta, warning) ==
    [layer |-> layer, exact |-> exact, delta_mm |-> delta, warning |-> warning]

Abs(x) == IF x < 0 THEN -x ELSE x

\* self._by_number = {l.number: l for l in layers}: a later layer replaces an
\* earlier one of the same number.  ByNumberHas / ByNumberGet are dict.get.
ByNumberHas(layers, n) == \E i \in 1..Len(layers) : layers[i].number = n
ByNumberGet(layers, n) ==
    LET last == CHOOSE i \in 1..Len(layers) :
                   /\ layers[i].number = n
                   /\ \A j \in (i + 1)..Len(layers) : layers[j].number # n
    IN layers[last]

\* sorted(layers, key=z_height): stable, so equal heights keep the list order.
RECURSIVE InsertByZ(_, _)
InsertByZ(sorted, l) ==
    IF sorted = <<>> THEN <<l>>
    ELSE IF sorted[Len(sorted)].z_height <= l.z_height THEN Append(sorted, l)
    ELSE Append(InsertByZ(SubSeq(sorted, 1, Len(sorted) - 1), l), sorted[Len(sorted)])

RECURSIVE ZSorted(_)
ZSorted(layers) ==
    IF layers = <<>> THEN <<>>
    ELSE InsertByZ(ZSorted(SubSeq(layers, 1, Len(layers) - 1)), layers[Len(layers)])

\* The read-only properties layer_count, min_layer, max_layer, min_z, max_z:
\* min_layer / max_layer read the first / last layer of the list as given,
\* min_z / max_z the first / last layer of the Z-sorted list.
Properties(layers) ==
    LET zs == ZSorted(layers)
    IN [layer_count |-> Len(layers),
        min_layer |-> layers[1].number,
        max_layer |-> layers[Len(layers)].number,
        min_z |-> zs[1].z_height,
        max_z |-> zs[Len(zs)].z_height]

\* A faulty variant: an absent number falls back to the first layer
ByLayerNumber_FirstOnMiss(layers, n) ==
    IF ~ByNumberHas(layers, n)
    THEN [raised |-> "none", match |-> LayerMatch(layers[1], TRUE, 0, FALSE)]
    ELSE [raised |-> "none", match |-> LayerMatch(ByNumberGet(layers, n), TRUE, 0, FALSE)]

\* by_layer_number: [raised, match]
ByLayerNumber(layers, n) ==
    IF ~ByNumberHas(layers, n)
    THEN [raised |-> "KeyError", match |-> NoMatch]
    ELSE [raised |-> "none", match |-> LayerMatch(ByNumberGet(layers, n), TRUE, 0, FALSE)]

\* A faulty variant: on equal distance the scan keeps the later layer
RECURSIVE NearestScan_LastWins(_, _, _)
NearestScan_LastWins(zs, k, z_mm) ==
    IF k = 0 THEN [found |-> FALSE, best |-> NoLayer, best_delta |-> 0]
    ELSE LET prev == NearestScan_LastWins(zs, k - 1, z_mm)
             delta == z_mm - zs[k].z_height
         IN IF ~prev.found \/ Abs(delta) <= Abs(prev.best_delta)
            THEN [found |-> TRUE, best |-> zs[k], best_delta |-> delta]
            ELSE prev

\* The scan of by_z_height over the first k layers of the Z-sorted list:
\* [found, best, best_delta]; best_delta = inf while nothing is found.
RECURSIVE NearestScan(_, _, _)
NearestScan(zs, k, z_mm) ==
    IF k = 0 THEN [found |-> FALSE, best |-> NoLayer, best_delta |-> 0]
    ELSE LET prev == NearestScan(zs, k - 1, z_mm)
             delta == z_mm - zs[k].z_height
         IN IF ~prev.found \/ Abs(delta) < Abs(prev.best_delta)
            THEN [found |-> TRUE, best |-> zs[k], best_delta |-> delta]
            ELSE prev

\* A faulty variant: the tolerance is exclusive at the boundary
ByZHeight_Exclusive(layers, tolerance, z_mm) ==
    LET zs == ZSorted(layers)
        r == NearestScan(zs, Len(zs), z_mm)
    IN IF r.best_delta = 0
       THEN [raised |-> "none", match |-> LayerMatch(r.best, TRUE, 0, FALSE)]
       ELSE IF Abs(r.best_delta) < tolerance
       THEN [raised |-> "none", match |-> LayerMatch(r.best, FALSE, r.best_delta, TRUE)]
       ELSE [raised |-> "ValueError", match |-> NoMatch]

\* by_z_height: [raised, match]
ByZHeight(layers, tolerance, z_mm) ==
    LET zs == ZSorted(layers)
        r == NearestScan(zs, Len(zs), z_mm)
    IN IF r.best_delta = 0
       THEN [raised |-> "none", match |-> LayerMatch(r.best, TRUE, 0, FALSE)]
       ELSE IF Abs(r.best_delta) <= tolerance
       THEN [raised |-> "none", match |-> LayerMatch(r.best, FALSE, r.best_delta, TRUE)]
       ELSE [raised |-> "ValueError", match |-> NoMatch]

(***************************************************************************)
(* core/profiles.py: the built-in profile                                  *)
(***************************************************************************)
\* tolerance_mm = 0.15
ToleranceMm == 15
\* safe_lift_mm = 10.0
SafeLiftMm == 1000

(***************************************************************************)
(* app/controller.py                                                       *)
(***************************************************************************)
FallbackBedTemp == 60
FallbackNozzleTemp == 200

\* Controller._resolve_layer
ResolveLayer(layers, request) ==
    IF request.kind = "int"
    THEN ByLayerNumber(layers, request.selector)
    ELSE ByZHeight(layers, ToleranceMm, request.selector)

\* The in-air safety adjustment: the first layer in list order with the
\* match's number is replaced by its successor, if it has one.
InAirAdjust(layers, request, match) ==
    IF request.mode = "in_air" /\ request.kind = "int"
    THEN LET i == CHOOSE i \in 1..Len(layers) :
                     /\ layers[i].number = match.layer.number
                     /\ \A j \in 1..(i - 1) : layers[j].number # match.layer.number
         IN IF i + 1 <= Len(layers)
            THEN LayerMatch(layers[i + 1], TRUE, 0, match.warning)
            ELSE match
    ELSE match

\* ResumeConfig as run() builds it
BuildConfig(match, temps, request) ==
    [resume_layer |-> match.layer.number,
     resume_z |-> match.layer.z_height,
     bed_temp |-> IF temps.bed_temp > 0 THEN temps.bed_temp ELSE FallbackBedTemp,
     nozzle_temp |-> IF temps.nozzle_temp > 0 THEN temps.nozzle_temp ELSE FallbackNozzleTemp,
     safe_lift_mm |-> SafeLiftMm,
     z_offset_mm |-> request.z_offset_mm,
     resume_mode |-> request.mode]

NoConfig ==
    [resume_layer |-> -1, resume_z |-> 0, bed_temp |-> 0, nozzle_temp |-> 0,
     safe_lift_mm |-> 0, z_offset_mm |-> 0, resume_mode |-> "none"]

\* requested_profile in (None, "auto", "auto.json")
AutoProfile(request) == request.profile_name \in {"None", "auto", "auto.json"}

\* The texts run() appends to its warnings list.
AutoProfileWarning == "Auto profile selected"
FuzzyMatchWarning == "Fuzzy match"
InAirWarning == "In-air safety adjustment"
BedFallbackWarning == "Bed temperature not detected in original file - using fallback 60C."
NozzleFallbackWarning == "Nozzle temperature not detected in original file - using fallback 200C."

\* The in-air safety adjustment appends its warning when the first layer with
\* the match's number has a successor.
InAirShifts(layers, request, match) ==
    /\ request.mode = "in_air" /\ request.kind = "int"
    /\ \E i \in 1..Len(layers) :
          /\ layers[i].number = match.layer.number
          /\ \A j \in 1..(i - 1) : layers[j].number # match.layer.number
          /\ i + 1 <= Len(layers)

\* "Temperature sanity": the warnings of the two fallbacks, bed first.
FallbackWarnings(temps) ==
    Append1(Append1(<<>>, temps.bed_temp <= 0, BedFallbackWarning),
            temps.nozzle_temp <= 0, NozzleFallbackWarning)

\* The keywords of the call self._validator.validate(lines, resume_z=, safe_lift_z=, resume_mode=)
RunKeywords == {"lines", "resume_z", "safe_lift_z", "resume_mode"}

\* Step 6 of run(): "TypeError" if the call does not bind, else "ok" or "errors".
RunValidation(config) ==
    IF ~CallBinds(RunKeywords) THEN "TypeError"
    ELSE IF Ok(Validate(GenerateHeader(config), config.resume_z + config.z_offset_mm))
         THEN "ok" ELSE "errors"

\* for issue in validation.warnings: warnings.append(...), by issue code
ValidationWarnings(config) ==
    IF ~CallBinds(RunKeywords) THEN <<>>
    ELSE LET w == Warnings(Validate(GenerateHeader(config), config.resume_z + config.z_offset_mm))
         IN [k \in 1..Len(w) |-> w[k].code]

NoRunResult == [returned |-> FALSE, warnings |-> <<>>]

\* A faulty variant: the file is written whatever step 6 gave
SaveReached_Always(validation) == TRUE

\* Step 7 is reached only when validate returned and validation.ok holds.
SaveReached(validation) == validation = "ok"

\* Controller._build_output_path: the mode prefix and the layer number name the file.
BuildOutputPath(layer_number, resume_mode) ==
    <<IF resume_mode = "in_air" THEN "In-Place" ELSE "On-Plate", layer_number>>

(***************************************************************************)
(* core/gcode_parser.py                                                    *)
(*                                                                         *)
(* A line of the parsed text is a record of the tokens the parser's tests  *)
(* look at.  A comment line ";<lead spaces><WORD>[:=]<number>" has kind    *)
(* "comment", the count of spaces, the upper-cased word and the number.    *)
(* A command line has the command word (for G and M codes the letter and   *)
(* the digits), the Z parameter, the target (S/R, TARGET=, MINIMUM=), the  *)
(* heater or sensor name, and the EXTRUDER= / BED= macro parameters.       *)
(* Temperatures are whole degrees.  Line indices count from 0.             *)
(***************************************************************************)
DocBlank ==
    [kind |-> "blank", lead |-> 0, word |-> "", digits |-> <<>>,
     num |-> FALSE, val |-> 0, Znum |-> FALSE, Zval |-> 0, device |-> "",
     Enum |-> FALSE, Eval |-> 0, Bnum |-> FALSE, Bval |-> 0]

\* ";<lead spaces>WORD"
DocComment(lead, word) == [DocBlank EXCEPT !.kind = "comment", !.lead = lead, !.word = word]
\* ";<lead spaces>WORD:<n>" or ";<lead spaces>WORD = <n>"
DocCommentNum(lead, word, n) == [DocComment(lead, word) EXCEPT !.num = TRUE, !.val = n]

\* "G1", "M140", "PRINT_START", ... followed by whitespace or the end of the command
DocCmd(word, d) == [DocBlank EXCEPT !.kind = "cmd", !.word = word, !.digits = d]
DocZ(c, z) == [c EXCEPT !.Znum = TRUE, !.Zval = z]
\* S<t> or R<t>; TARGET=<t>; MINIMUM=<t>
DocTarget(c, t) == [c EXCEPT !.num = TRUE, !.val = t]
\* HEATER=<name>; SENSOR=<name>
DocDevice(c, name) == [c EXCEPT !.device = name]
DocExtruderParam(c, t) == [c EXCEPT !.Enum = TRUE, !.Eval = t]
DocBedParam(c, t) == [c EXCEPT !.Bnum = TRUE, !.Bval = t]

\* The comment words of the model that start with "LAYER".
LayerWords == {"LAYER", "LAYER_CHANGE", "LAYER_COUNT"}
\* The keys of _RE_COMMENT_NOZZLE_TEMP and _RE_COMMENT_BED_TEMP, upper-cased.
CommentNozzleKeys ==
    {"NOZZLE_TEMPERATURE", "TEMPERATURE_EXTRUDER", "EXTRUDER_TEMPERATURE", "HOTEND_TEMP",
     "NOZZLE_TEMP", "FIRST_LAYER_TEMPERATURE"}
CommentBedKeys ==
    {"BED_TEMPERATURE", "FIRST_LAYER_BED_TEMPERATURE", "HEATED_BED_TEMPERATURE"}
\* The heater and sensor names of the model that contain "BED" / "EXTRUDER".
ContainsBED(name) == name \in {"HEATER_BED"}
ContainsEXTRUDER(name) == name \in {"EXTRUDER"}

\* "LAYER" in stripped[1:7].upper(): the word LAYER lies within the six
\* characters that follow the semicolon.
InUpper5(line) == line.word \in LayerWords /\ line.lead + 5 <= 6
\* _RE_LAYER_NUM.search(stripped): ";", spaces, LAYER, ":", an integer
LayerNumMatch(line) == line.word = "LAYER" /\ line.num
\* _RE_LAYER_CHANGE.search(stripped)
LayerChangeMatch(line) == line.word = "LAYER_CHANGE"
\* _RE_COMMENT_NOZZLE_TEMP.search / _RE_COMMENT_BED_TEMP.search: key = unsigned number
CommentNozzleMatch(line) == line.word \in CommentNozzleKeys /\ line.num /\ line.val >= 0
CommentBedMatch(line) == line.word \in CommentBedKeys /\ line.num /\ line.val >= 0

\* cmd_upper[1:2] in ("0", "1")
SecondCharIs0Or1(line) == line.digits # <<>> /\ line.digits[1] \in {0, 1}
\* A faulty variant: only G1 is taken for a move
ZMoveMatch_G1Only(line) ==
    line.word = "G" /\ Len(line.digits) = 1 /\ line.digits[1] = 1 /\ line.Znum

\* _RE_Z_MOVE.match(cmd_upper): G0 or G1, whitespace, then a Z with a number
ZMoveMatch(line) ==
    line.word = "G" /\ Len(line.digits) = 1 /\ line.digits[1] \in {0, 1} /\ line.Znum
\* prefix3.startswith((a, b)), the digits that follow the M
Prefix3StartsWith(line, a, b) ==
    /\ Len(line.digits) >= 3
    /\ SubSeq(line.digits, 1, 3) \in {a, b}
\* _RE_TEMP_BED.match / _RE_TEMP_NOZZLE.match: ^M(a|b)\b, then S or R with a number
TempMatch(line, a, b) == line.digits \in {a, b} /\ line.num

\* current_z = 0.0
InitialCurrentZ == 0
\* prev_z = -1.0
InitialPrevZ == -100

ParseInit ==
    [layer_markers |-> <<>>, layer_change_markers |-> <<>>, z_changes |-> <<>>,
     current_z |-> InitialCurrentZ, bed_temp |-> 0, nozzle_temp |-> 0]

\* A faulty variant: comment metadata overrides a temperature already set
ParseComment_Overrides(st, line, idx) ==
    LET s1 == IF InUpper5(line) /\ LayerNumMatch(line)
              THEN [st EXCEPT !.layer_markers = Append(@, [idx |-> idx, num |-> line.val])]
              ELSE IF InUpper5(line) /\ LayerChangeMatch(line)
              THEN [st EXCEPT !.layer_change_markers = Append(@, idx)]
              ELSE st
        s2 == IF CommentNozzleMatch(line) /\ line.val > 0
              THEN [s1 EXCEPT !.nozzle_temp = line.val] ELSE s1
    IN IF CommentBedMatch(line) /\ line.val > 0
       THEN [s2 EXCEPT !.bed_temp = line.val] ELSE s2

\* The comment-only fast path.
ParseComment(st, line, idx) ==
    LET s1 == IF InUpper5(line) /\ LayerNumMatch(line)
              THEN [st EXCEPT !.layer_markers = Append(@, [idx |-> idx, num |-> line.val])]
              ELSE IF InUpper5(line) /\ LayerChangeMatch(line)
              THEN [st EXCEPT !.layer_change_markers = Append(@, idx)]
              ELSE st
        s2 == IF s1.nozzle_temp = 0 /\ CommentNozzleMatch(line) /\ line.val > 0
              THEN [s1 EXCEPT !.nozzle_temp = line.val] ELSE s1
    IN IF s2.bed_temp = 0 /\ CommentBedMatch(line) /\ line.val > 0
       THEN [s2 EXCEPT !.bed_temp = line.val] ELSE s2

\* A heater or sensor target: BED is looked for first, then EXTRUDER.
SetDeviceTemp(st, line) ==
    IF ~(line.device # "" /\ line.num /\ line.val > 0) THEN st
    ELSE IF ContainsBED(line.device) THEN [st EXCEPT !.bed_temp = line.val]
    ELSE IF ContainsEXTRUDER(line.device) THEN [st EXCEPT !.nozzle_temp = line.val]
    ELSE st

\* The catch-all for macros that pass temperatures as key=value parameters.
SetMacroTemps(st, line) ==
    LET s1 == IF line.Enum /\ line.Eval > 0 THEN [st EXCEPT !.nozzle_temp = line.Eval] ELSE st
    IN IF line.Bnum /\ line.Bval > 0 THEN [s1 EXCEPT !.bed_temp = line.Bval] ELSE s1

\* Command lines, classified by the first character.
ParseCommand(st, line, idx) ==
    IF line.word = "G"
    THEN IF SecondCharIs0Or1(line) /\ ZMoveMatch(line) /\ line.Zval # st.current_z
         THEN [st EXCEPT !.z_changes = Append(@, [idx |-> idx, z |-> line.Zval]),
                         !.current_z = line.Zval]
         ELSE st
    ELSE IF line.word = "M"
    THEN IF Prefix3StartsWith(line, <<1, 4, 0>>, <<1, 9, 0>>)
         THEN IF TempMatch(line, <<1, 4, 0>>, <<1, 9, 0>>) /\ line.val > 0
              THEN [st EXCEPT !.bed_temp = line.val] ELSE st
         ELSE IF Prefix3StartsWith(line, <<1, 0, 4>>, <<1, 0, 9>>)
         THEN IF TempMatch(line, <<1, 0, 4>>, <<1, 0, 9>>) /\ line.val > 0
              THEN [st EXCEPT !.nozzle_temp = line.val] ELSE st
         ELSE st
    ELSE IF line.word \in {"SET_HEATER_TEMPERATURE", "TEMPERATURE_WAIT"}
    THEN SetDeviceTemp(st, line)
    ELSE SetMacroTemps(st, line)

ParseLine(st, line, idx) ==
    IF line.kind = "blank" THEN st
    ELSE IF line.kind = "comment" THEN ParseComment(st, line, idx)
    ELSE ParseCommand(st, line, idx)

\* for idx, raw in enumerate(stream): the state after the first k lines
RECURSIVE ParseScan(_, _)
ParseScan(lines, k) ==
    IF k = 0 THEN ParseInit
    ELSE ParseLine(ParseScan(lines, k - 1), lines[k], k - 1)

LayerInfo(number, z, start, end) ==
    [number |-> number, z_height |-> z, start_line |-> start, end_line |-> end]

\* A faulty variant: a layer ends on the line where the next one starts
EndLine_Overlapping(starts, i, total_lines) ==
    IF i < Len(starts) THEN starts[i + 1] ELSE total_lines - 1

\* layers[-1].end_line = line_idx - 1 when the next layer is appended, and
\* total_lines - 1 for the last one; starts is the sequence of start lines.
EndLine(starts, i, total_lines) ==
    IF i < Len(starts) THEN starts[i + 1] - 1 ELSE total_lines - 1

\* A faulty variant: the layers are numbered by position, not by their marker
LayersFromMarkers_Renumbered(markers, total_lines) ==
    LET starts == [i \in 1..Len(markers) |-> markers[i].idx]
    IN [i \in 1..Len(markers) |->
            LayerInfo(i - 1, 0, markers[i].idx, EndLine(starts, i, total_lines))]

\* GCodeParser._layers_from_markers
LayersFromMarkers(markers, total_lines) ==
    LET starts == [i \in 1..Len(markers) |-> markers[i].idx]
    IN [i \in 1..Len(markers) |->
            LayerInfo(markers[i].num, 0, markers[i].idx, EndLine(starts, i, total_lines))]

\* while zi < len(z_changes) and z_changes[zi][0] < start: zi += 1   (zi counts from 1)
RECURSIVE AdvanceZi(_, _, _)
AdvanceZi(z_changes, zi, start) ==
    IF zi <= Len(z_changes) /\ z_changes[zi].idx < start
    THEN AdvanceZi(z_changes, zi + 1, start)
    ELSE zi

\* The value of zi when the loop of _backfill_z / _layers_from_change_markers
\* has handled the first i start lines.
RECURSIVE ZiAfter(_, _, _)
ZiAfter(z_changes, starts, i) ==
    IF i = 0 THEN 1
    ELSE AdvanceZi(z_changes, ZiAfter(z_changes, starts, i - 1), starts[i])

\* GCodeParser._backfill_z
BackfillZ(layers, z_changes) ==
    IF z_changes = <<>> THEN layers
    ELSE LET starts == [i \in 1..Len(layers) |-> layers[i].start_line]
         IN [i \in 1..Len(layers) |->
                LET zi == ZiAfter(z_changes, starts, i)
                IN IF zi <= Len(z_changes)
                   THEN [layers[i] EXCEPT !.z_height = z_changes[zi].z]
                   ELSE [layers[i] EXCEPT !.z_height = z_changes[zi - 1].z]]

\* GCodeParser._layers_from_change_markers
LayersFromChangeMarkers(markers, z_changes, total_lines) ==
    [i \in 1..Len(markers) |->
        LET zi == ZiAfter(z_changes, markers, i)
            z == IF zi <= Len(z_changes) THEN z_changes[zi].z
                 ELSE IF z_changes # <<>> THEN z_changes[Len(z_changes)].z ELSE 0
        IN LayerInfo(i - 1, z, markers[i], EndLine(markers, i, total_lines))]

\* A faulty variant: a Z equal to the last layer's Z starts a layer too
RECURSIVE ZIncreases_OrEqual(_, _)
ZIncreases_OrEqual(z_changes, k) ==
    IF k = 0 THEN <<>>
    ELSE LET acc == ZIncreases_OrEqual(z_changes, k - 1)
             prev_z == IF acc = <<>> THEN InitialPrevZ ELSE acc[Len(acc)].z
         IN IF z_changes[k].z >= prev_z THEN Append(acc, z_changes[k]) ELSE acc

\* The Z changes among the first k that start a layer: z > prev_z, where
\* prev_z is the Z of the layer started last.
RECURSIVE ZIncreases(_, _)
ZIncreases(z_changes, k) ==
    IF k = 0 THEN <<>>
    ELSE LET acc == ZIncreases(z_changes, k - 1)
             prev_z == IF acc = <<>> THEN InitialPrevZ ELSE acc[Len(acc)].z
         IN IF z_changes[k].z > prev_z THEN Append(acc, z_changes[k]) ELSE acc

\* GCodeParser._layers_from_z_changes
LayersFromZChanges(z_changes, total_lines) ==
    LET inc == ZIncreases(z_changes, Len(z_changes))
        starts == [i \in 1..Len(inc) |-> inc[i].idx]
    IN [i \in 1..Len(inc) |->
            LayerInfo(i - 1, inc[i].z, inc[i].idx, EndLine(starts, i, total_lines))]

\* A faulty variant: layer-change markers are preferred to indexed markers
DetectionMethod_ChangeFirst(st) ==
    IF st.layer_change_markers # <<>> THEN "layer_change"
    ELSE IF st.layer_markers # <<>> THEN "comment_layer"
    ELSE IF st.z_changes # <<>> THEN "z_move"
    ELSE "none"

\* The detection method: the first non-empty source in the order of the cascade.
DetectionMethod(st) ==
    IF st.layer_markers # <<>> THEN "comment_layer"
    ELSE IF st.layer_change_markers # <<>> THEN "layer_change"
    ELSE IF st.z_changes # <<>> THEN "z_move"
    ELSE "none"

\* GCodeParser._parse_stream: the scan, then the layer list from the best source.
ParseStream(lines) ==
    LET st == ParseScan(lines, Len(lines))
        method == DetectionMethod(st)
    IN [layers |->
            IF method = "comment_layer"
            THEN BackfillZ(LayersFromMarkers(st.layer_markers, Len(lines)), st.z_changes)
            ELSE IF method = "layer_change"
            THEN LayersFromChangeMarkers(st.layer_change_markers, st.z_changes, Len(lines))
            ELSE IF method = "z_move"
            THEN LayersFromZChanges(st.z_changes, Len(lines))
            ELSE <<>>,
        detection_method |-> method,
        state |-> [bed_temp |-> st.bed_temp, nozzle_temp |-> st.nozzle_temp]]

NoParse == [layers |-> <<>>, detection_method |-> "none",
            state |-> [bed_temp |-> 0, nozzle_temp |-> 0]]

(***************************************************************************)
(* Specification of the validator: the inputs, then one call.              *)
(***************************************************************************)
LineSeqs == UNION {[1..n -> ValLines] : n \in 0..MaxLines}

VIdle ==
    /\ vLines = <<>>
    /\ vResumeZ = 0
    /\ vMode = "default"
    /\ vpc = "input"
    /\ vResult = NoResult

CIdle ==
    /\ cLayers = <<>>
    /\ cRequest = [selector |-> 0, kind |-> "int", mode |-> "in_air", z_offset_mm |-> 0,
                   profile_name |-> "None"]
    /\ cTemps = [bed_temp |-> 0, nozzle_temp |-> 0]
    /\ cApi = "run"
    /\ cpc = "idle"
    /\ cMatch = NoMatch
    /\ cGen = NoLayer
    /\ cError = "none"
    /\ cFile = {}
    /\ cReturn = NoLayer
    /\ cValidation = "none"
    /\ cWarnings = <<>>
    /\ cConfig = NoConfig
    /\ cResult = NoRunResult

PIdle ==
    /\ pLines = <<>>
    /\ ppc = "input"
    /\ pResult = NoParse

MIdle ==
    /\ mLayers = <<>>
    /\ mCall = [method |-> "none", arg |-> 0]
    /\ mOutcome = "none"
    /\ mResult = NoMatch

GIdle ==
    /\ gLines = <<>>
    /\ gStart = 0
    /\ gConfig = NoConfig
    /\ gpc = "input"
    /\ gOut = <<>>

RIdle ==
    /\ rInput = <<>>
    /\ rpc = <<>>
    /\ rMatch = <<>>
    /\ rConfig = <<>>
    /\ rWarnings = <<>>
    /\ rError = <<>>
    /\ rResult = <<>>
    /\ rFiles = {}

VInit ==
    /\ vLines \in LineSeqs
    /\ vResumeZ \in ResumeZs
    /\ vMode = "default"
    /\ vpc = "input"
    /\ vResult = NoResult

\* v.validate(lines, resume_z=..) and v.validate(lines, resume_z=.., resume_mode=mode)
CallValidate(mode) ==
    /\ vpc = "input"
    /\ vMode' = mode
    /\ IF CallBinds(DirectKeywords(mode))
       THEN /\ vpc' = "returned"
            /\ vResult' = ValidationResult(Validate(vLines, vResumeZ))
       ELSE /\ vpc' = "raised"
            /\ vResult' = NoResult
    /\ UNCHANGED <<vLines, vResumeZ>>
    /\ UNCHANGED <<cvars, pvars, mvars, gvars, rvars>>

InitV == VInit /\ CIdle /\ PIdle /\ MIdle /\ GIdle /\ RIdle
NextV == \E mode \in {"default", "from_plate"} : CallValidate(mode)
SpecV == InitV /\ [][NextV]_vars

(***************************************************************************)
(* Specification of the controller: one run of the pipeline on an input    *)
(* file whose parse gave cLayers and cTemps.                               *)
(***************************************************************************)
LayerNumbers == {0, 1, 2}
LayerZs == {30, 60}
IntSelectors == {0, 1, 2, 5}
ZSelectors == {30, 45, 50, 90}

\* Layer lists as the parser builds them: start lines ascending.
LayerLists ==
    UNION { { [i \in 1..n |-> [number |-> f[i][1], z_height |-> f[i][2], start_line |-> 10 * i]] :
              f \in [1..n -> LayerNumbers \X LayerZs] } : n \in 0..MaxLayers }

ProfileNames == {"None", "default_marlin.json"}
ParsedTemps == {[bed_temp |-> b, nozzle_temp |-> n] : b \in {0, 60}, n \in {0, 205}}

Requests ==
    { [selector |-> s, kind |-> "int", mode |-> m, z_offset_mm |-> 0, profile_name |-> p] :
        s \in IntSelectors, m \in {"in_air", "from_plate"}, p \in ProfileNames }
    \cup
    { [selector |-> s, kind |-> "float", mode |-> m, z_offset_mm |-> 0, profile_name |-> p] :
        s \in ZSelectors, m \in {"in_air", "from_plate"}, p \in ProfileNames }

CInit ==
    /\ cLayers \in LayerLists
    /\ cRequest \in Requests
    /\ cTemps \in ParsedTemps
    /\ cApi \in {"run", "process"}
    /\ cpc = "idle"
    /\ cMatch = NoMatch
    /\ cGen = NoLayer
    /\ cError = "none"
    /\ cFile = {}
    /\ cReturn = NoLayer
    /\ cValidation = "none"
    /\ cWarnings = <<>>
    /\ cConfig = NoConfig
    /\ cResult = NoRunResult

\* Steps 1-2: parse the file, load the profile.
Parse ==
    /\ cpc = "idle"
    /\ cpc' = "parsed"
    /\ cWarnings' = Append1(<<>>, AutoProfile(cRequest), AutoProfileWarning)
    /\ UNCHANGED <<cLayers, cRequest, cMatch, cGen, cError, cFile, cReturn, cApi,
                   cTemps, cValidation, cConfig, cResult>>
    /\ UNCHANGED <<vvars, pvars, mvars, gvars, rvars>>

\* if not parsed.layers: raise RuntimeError
NoLayersRaise ==
    /\ cpc = "parsed"
    /\ cLayers = <<>>
    /\ cpc' = "raised"
    /\ cError' = "RuntimeError: No layers detected"
    /\ UNCHANGED <<cLayers, cRequest, cMatch, cGen, cFile, cReturn, cApi,
                   cTemps, cValidation, cWarnings, cConfig, cResult>>
    /\ UNCHANGED <<vvars, pvars, mvars, gvars, rvars>>

\* Step 3: LayerMapper(parsed.layers), _resolve_layer
MapLayers ==
    /\ cpc = "parsed"
    /\ cLayers # <<>>
    /\ LET r == ResolveLayer(cLayers, cRequest)
       IN IF r.raised # "none"
          THEN /\ cpc' = "raised"
               /\ cError' = r.raised
               /\ UNCHANGED <<cMatch, cWarnings>>
          ELSE /\ cpc' = "mapped"
               /\ cMatch' = r.match
               /\ cWarnings' = Append1(cWarnings, r.match.warning, FuzzyMatchWarning)
               /\ UNCHANGED cError
    /\ UNCHANGED <<cLayers, cRequest, cGen, cFile, cReturn, cApi, cTemps, cValidation,
                   cConfig, cResult>>
    /\ UNCHANGED <<vvars, pvars, mvars, gvars, rvars>>

\* The in-air safety adjustment of the match.
Adjust ==
    /\ cpc = "mapped"
    /\ cpc' = "adjusted"
    /\ cMatch' = InAirAdjust(cLayers, cRequest, cMatch)
    /\ cWarnings' = Append1(cWarnings, InAirShifts(cLayers, cRequest, cMatch), InAirWarning)
    /\ UNCHANGED <<cLayers, cRequest, cGen, cError, cFile, cReturn, cApi,
                   cTemps, cValidation, cConfig, cResult>>
    /\ UNCHANGED <<vvars, pvars, mvars, gvars, rvars>>

\* Steps 4-5: build the config, append the fallback warnings, generate from match.
Generate ==
    /\ cpc = "adjusted"
    /\ cpc' = "generated"
    /\ cConfig' = BuildConfig(cMatch, cTemps, cRequest)
    /\ cWarnings' = cWarnings \o FallbackWarnings(cTemps)
    /\ cGen' = cMatch.layer
    /\ UNCHANGED <<cLayers, cRequest, cMatch, cError, cFile, cReturn, cApi,
                   cTemps, cValidation, cResult>>
    /\ UNCHANGED <<vvars, pvars, mvars, gvars, rvars>>

\* Steps 6-7: validate; raise, or write the file and return.
ValidateAndSave ==
    /\ cpc = "generated"
    /\ LET validation == RunValidation(cConfig)
           warnings == cWarnings \o ValidationWarnings(cConfig)
       IN /\ cValidation' = validation
          /\ IF validation = "TypeError" THEN UNCHANGED cWarnings ELSE cWarnings' = warnings
          /\ IF SaveReached(validation)
             THEN /\ cpc' = "done"
                  /\ cFile' = cFile \cup {BuildOutputPath(cMatch.layer.number, cRequest.mode)}
                  /\ cReturn' = cMatch.layer
                  /\ cResult' = [returned |-> TRUE, warnings |-> warnings]
                  /\ UNCHANGED cError
             ELSE /\ cpc' = "raised"
                  /\ cError' = IF validation = "TypeError" THEN "TypeError"
                               ELSE "RuntimeError: Validation failed"
                  /\ UNCHANGED <<cFile, cReturn, cResult>>
    /\ UNCHANGED <<cLayers, cRequest, cMatch, cGen, cApi, cTemps, cConfig>>
    /\ UNCHANGED <<vvars, pvars, mvars, gvars, rvars>>

InitC == CInit /\ VIdle /\ PIdle /\ MIdle /\ GIdle /\ RIdle
NextC == Parse \/ NoLayersRaise \/ MapLayers \/ Adjust \/ Generate \/ ValidateAndSave
SpecC == InitC /\ [][NextC]_vars

(***************************************************************************)
(* Specification of the parser: a text, then one call of parse_string.     *)
(* SpecP draws the text from the lines that bear on layer detection, SpecT *)
(* from the lines that bear on the temperatures.                           *)
(***************************************************************************)
DocG0 == DocCmd("G", <<0>>)
DocG1 == DocCmd("G", <<1>>)
DocG10 == DocCmd("G", <<1, 0>>)
LayerComment(n) == DocCommentNum(0, "LAYER", n)

\* ";LAYER:0", ";LAYER:1", ";   LAYER:7" (three spaces: not of the form
\* ";LAYER:<n>"), ";LAYER_CHANGE", ";LAYER_COUNT:3", "G1 Z0.3", "G1 Z0.6",
\* "G0 Z0.9", "G1 Z0", "G1 Z-0.5", "G1 Z-1", "G1 X.. Y..", "G10 Z0.9"
LayerDocLines ==
    { DocBlank, LayerComment(0), LayerComment(1), DocCommentNum(3, "LAYER", 7),
      DocComment(0, "LAYER_CHANGE"), DocCommentNum(0, "LAYER_COUNT", 3),
      DocZ(DocG1, 30), DocZ(DocG1, 60), DocZ(DocG0, 90), DocZ(DocG1, 0),
      DocZ(DocG1, -50), DocZ(DocG1, -100),
      DocG1, DocZ(DocG10, 90) }

DocM(d) == DocCmd("M", d)
SetHeater(name, t) == DocTarget(DocDevice(DocCmd("SET_HEATER_TEMPERATURE", <<>>), name), t)
TemperatureWait(name, t) == DocTarget(DocDevice(DocCmd("TEMPERATURE_WAIT", <<>>), name), t)

\* ";nozzle_temperature = 210", ";nozzle_temperature = 0",
\* ";first_layer_temperature = 215", ";bed_temperature = 65",
\* "M140 S60", "M140 S0", "M190 R70", "M104 S200", "M104 S0", "M104 S-5", "M109 R205",
\* "SET_HEATER_TEMPERATURE HEATER=heater_bed TARGET=55", "... HEATER=extruder TARGET=215",
\* "... HEATER=chamber TARGET=45", "TEMPERATURE_WAIT SENSOR=extruder MINIMUM=195",
\* "PRINT_START EXTRUDER=220 BED=75", "M105"
TempDocLines ==
    { DocCommentNum(0, "NOZZLE_TEMPERATURE", 210), DocCommentNum(0, "NOZZLE_TEMPERATURE", 0),
      DocCommentNum(0, "FIRST_LAYER_TEMPERATURE", 215), DocCommentNum(0, "BED_TEMPERATURE", 65),
      DocTarget(DocM(<<1, 4, 0>>), 60), DocTarget(DocM(<<1, 4, 0>>), 0),
      DocTarget(DocM(<<1, 9, 0>>), 70),
      DocTarget(DocM(<<1, 0, 4>>), 200), DocTarget(DocM(<<1, 0, 4>>), 0),
      DocTarget(DocM(<<1, 0, 4>>), -5), DocTarget(DocM(<<1, 0, 9>>), 205),
      SetHeater("HEATER_BED", 55), SetHeater("EXTRUDER", 215), SetHeater("CHAMBER", 45),
      TemperatureWait("EXTRUDER", 195),
      DocBedParam(DocExtruderParam(DocCmd("PRINT_START", <<>>), 220), 75),
      DocM(<<1, 0, 5>>) }

LayerDocs == UNION {[1..n -> LayerDocLines] : n \in 0..MaxDocLines}
TempDocs == UNION {[1..n -> TempDocLines] : n \in 0..MaxTempLines}

\* GCodeParser.parse_string(text)
ParseString ==
    /\ ppc = "input"
    /\ ppc' = "returned"
    /\ pResult' = ParseStream(pLines)
    /\ UNCHANGED pLines
    /\ UNCHANGED <<vvars, cvars, mvars, gvars, rvars>>

InitP == pLines \in LayerDocs /\ ppc = "input" /\ pResult = NoParse /\ VIdle /\ CIdle /\ MIdle /\ GIdle /\ RIdle
NextP == ParseString
SpecP == InitP /\ [][NextP]_vars

InitT == pLines \in TempDocs /\ ppc = "input" /\ pResult = NoParse /\ VIdle /\ CIdle /\ MIdle /\ GIdle /\ RIdle
NextT == ParseString
SpecT == InitT /\ [][NextT]_vars

(***************************************************************************)
(* Specification of the layer mapper: a LayerMapper built over a non-empty *)
(* layer list, then any number of lookups.                                 *)
(***************************************************************************)
MapperLayerLists == LayerLists \ {<<>>}

MInit ==
    /\ mLayers \in MapperLayerLists
    /\ mCall = [method |-> "none", arg |-> 0]
    /\ mOutcome = "none"
    /\ mResult = NoMatch

\* mapper.by_layer_number(n)
CallByLayerNumber(n) ==
    /\ mCall' = [method |-> "by_layer_number", arg |-> n]
    /\ LET r == ByLayerNumber(mLayers, n)
       IN /\ mOutcome' = IF r.raised = "none" THEN "returned" ELSE r.raised
          /\ mResult' = r.match
    /\ UNCHANGED mLayers
    /\ UNCHANGED <<vvars, cvars, pvars, gvars, rvars>>

\* mapper.by_z_height(z_mm)
CallByZHeight(z_mm) ==
    /\ mCall' = [method |-> "by_z_height", arg |-> z_mm]
    /\ LET r == ByZHeight(mLayers, ToleranceMm, z_mm)
       IN /\ mOutcome' = IF r.raised = "none" THEN "returned" ELSE r.raised
          /\ mResult' = r.match
    /\ UNCHANGED mLayers
    /\ UNCHANGED <<vvars, cvars, pvars, gvars, rvars>>

\* reading mapper.<name>, one of the five read-only properties
ReadProperty(name) ==
    /\ mCall' = [method |-> name, arg |-> 0]
    /\ mOutcome' = "returned"
    /\ mResult' = Properties(mLayers)[name]
    /\ UNCHANGED mLayers
    /\ UNCHANGED <<vvars, cvars, pvars, gvars, rvars>>

InitM == MInit /\ VIdle /\ CIdle /\ PIdle /\ GIdle /\ RIdle
NextM ==
    \/ \E n \in IntSelectors : CallByLayerNumber(n)
    \/ \E z \in ZSelectors : CallByZHeight(z)
    \/ \E name \in DOMAIN Properties(mLayers) : ReadProperty(name)
SpecM == InitM /\ [][NextM]_vars

(***************************************************************************)
(* Specification of the generator: a source file, a matched layer's        *)
(* start_line and a ResumeConfig, then one call of generate.               *)
(***************************************************************************)
LayerMarker(n) == Comment(IF n = 0 THEN ";LAYER:0" ELSE IF n = 1 THEN ";LAYER:1" ELSE ";LAYER:2")

\* ";LAYER:1", "G1 X10 Y10 Z0.6 E3.0", "G1 X10 Y10 Z0.9 E5.0", "G1 X30 Y30 E4.0",
\* "G1 Z0.45", "G10 Z0.6", "G28 Z", "G28 X Y"
SourceLines ==
    { LayerMarker(1), WithZ(WithXY(G1), 60), WithZ(WithXY(G1), 90), WithXY(G1),
      WithZ(G1, 45), WithZ(G10, 60), WithBareZ(G28), WithXY(G28) }

SourceDocs == UNION { [1..n -> SourceLines] : n \in 1..MaxSourceLines }

\* The 3-layer comment-marked file of the tests (GCODE_LAYER_COMMENT); its
\* layers start at lines 10, 13 and 16.
CleanSource ==
    << Comment("; Start"), G28, Cmd("G", <<2, 1>>), Cmd("G", <<9, 0>>), Cmd("M", <<8, 2>>),
       WithS(M140, 60), WithS(M190, 60), WithS(M104, 200), WithS(M109, 200),
       WithZ(G1, 30),
       LayerMarker(0), WithZ(WithXY(G1), 30), WithXY(G1),
       LayerMarker(1), WithZ(WithXY(G1), 60), WithXY(G1),
       LayerMarker(2), WithZ(WithXY(G1), 90), WithXY(G1) >>
CleanSourceStarts == {10, 13, 16}

GenConfigs ==
    { [resume_layer |-> 1, resume_z |-> z, bed_temp |-> FallbackBedTemp,
       nozzle_temp |-> FallbackNozzleTemp, safe_lift_mm |-> SafeLiftMm,
       z_offset_mm |-> o, resume_mode |-> m] :
        z \in LayerZs, o \in {0, 50}, m \in {"in_air", "from_plate"} }

GInit ==
    /\ \/ gLines \in SourceDocs /\ gStart \in 0..(Len(gLines) - 1)
       \/ gLines = CleanSource /\ gStart \in CleanSourceStarts
    /\ gConfig \in GenConfigs
    /\ gpc = "input"
    /\ gOut = <<>>

\* lines = gen.generate(parsed, match, config)
CallGenerate ==
    /\ gpc = "input"
    /\ gpc' = "returned"
    /\ gOut' = GenerateLines(gLines, gStart, gConfig)
    /\ UNCHANGED <<gLines, gStart, gConfig>>
    /\ UNCHANGED <<vvars, cvars, pvars, mvars, rvars>>

InitG == GInit /\ VIdle /\ CIdle /\ PIdle /\ MIdle /\ RIdle
NextG == CallGenerate
SpecG == InitG /\ [][NextG]_vars

(***************************************************************************)
(* Specification of two runs of one Controller: each run has its own       *)
(* request and parsed file and its own output directory; the steps of the  *)
(* two runs interleave in any order.                                       *)
(***************************************************************************)
Runs == {1, 2}

RunLayerLists ==
    { <<>>,
      << [number |-> 0, z_height |-> 30, start_line |-> 10],
         [number |-> 1, z_height |-> 60, start_line |-> 20] >> }

RunRequests ==
    { [selector |-> q[1], kind |-> q[2], mode |-> m, z_offset_mm |-> 0, profile_name |-> p] :
        q \in {<<0, "int">>, <<5, "int">>, <<45, "float">>},
        m \in {"in_air", "from_plate"},
        p \in {"None", "default_marlin.json"} }

RunInputs ==
    { [layers |-> ls, temps |-> t, request |-> q] :
        ls \in RunLayerLists,
        t \in {[bed_temp |-> 0, nozzle_temp |-> 0], [bed_temp |-> 60, nozzle_temp |-> 205]},
        q \in RunRequests }

\* A faulty variant: the warnings list is kept on the Controller
WarningsList_OnController(r) == 0

\* warnings: list[str] = [] is a local of run(): each run appends to its own list.
WarningsList(r) == r

RInit ==
    /\ rInput \in [Runs -> RunInputs]
    /\ rpc = [r \in Runs |-> "idle"]
    /\ rMatch = [r \in Runs |-> NoMatch]
    /\ rConfig = [r \in Runs |-> NoConfig]
    /\ rWarnings = [l \in Runs \cup {0} |-> <<>>]
    /\ rError = [r \in Runs |-> "none"]
    /\ rResult = [r \in Runs |-> NoRunResult]
    /\ rFiles = {}

\* Steps 1-2 of run r: parse_file, the profile, the auto-profile warning.
RunParse(r) ==
    /\ rpc[r] = "idle"
    /\ rpc' = [rpc EXCEPT ![r] = "parsed"]
    /\ rWarnings' = [rWarnings EXCEPT ![WarningsList(r)] =
                        Append1(@, AutoProfile(rInput[r].request), AutoProfileWarning)]
    /\ UNCHANGED <<rInput, rMatch, rConfig, rError, rResult, rFiles>>
    /\ UNCHANGED <<vvars, cvars, pvars, mvars, gvars>>

\* Step 3 of run r: raise on no layers, else LayerMapper and _resolve_layer.
RunMapLayers(r) ==
    /\ rpc[r] = "parsed"
    /\ IF rInput[r].layers = <<>>
       THEN /\ rpc' = [rpc EXCEPT ![r] = "raised"]
            /\ rError' = [rError EXCEPT ![r] = "RuntimeError: No layers detected"]
            /\ UNCHANGED <<rMatch, rWarnings>>
       ELSE LET m == ResolveLayer(rInput[r].layers, rInput[r].request)
            IN IF m.raised # "none"
               THEN /\ rpc' = [rpc EXCEPT ![r] = "raised"]
                    /\ rError' = [rError EXCEPT ![r] = m.raised]
                    /\ UNCHANGED <<rMatch, rWarnings>>
               ELSE /\ rpc' = [rpc EXCEPT ![r] = "mapped"]
                    /\ rMatch' = [rMatch EXCEPT ![r] = m.match]
                    /\ rWarnings' = [rWarnings EXCEPT ![WarningsList(r)] =
                                        Append1(@, m.match.warning, FuzzyMatchWarning)]
                    /\ UNCHANGED rError
    /\ UNCHANGED <<rInput, rConfig, rResult, rFiles>>
    /\ UNCHANGED <<vvars, cvars, pvars, mvars, gvars>>

\* The in-air safety adjustment of run r.
RunAdjust(r) ==
    /\ rpc[r] = "mapped"
    /\ rpc' = [rpc EXCEPT ![r] = "adjusted"]
    /\ rMatch' = [rMatch EXCEPT ![r] = InAirAdjust(rInput[r].layers, rInput[r].request, @)]
    /\ rWarnings' = [rWarnings EXCEPT ![WarningsList(r)] =
                        Append1(@, InAirShifts(rInput[r].layers, rInput[r].request, rMatch[r]),
                                InAirWarning)]
    /\ UNCHANGED <<rInput, rConfig, rError, rResult, rFiles>>
    /\ UNCHANGED <<vvars, cvars, pvars, mvars, gvars>>

\* Steps 4-5 of run r: the config, the fallback warnings, generate.
RunGenerate(r) ==
    /\ rpc[r] = "adjusted"
    /\ rpc' = [rpc EXCEPT ![r] = "generated"]
    /\ rConfig' = [rConfig EXCEPT ![r] = BuildConfig(rMatch[r], rInput[r].temps, rInput[r].request)]
    /\ rWarnings' = [rWarnings EXCEPT ![WarningsList(r)] = @ \o FallbackWarnings(rInput[r].temps)]
    /\ UNCHANGED <<rInput, rMatch, rError, rResult, rFiles>>
    /\ UNCHANGED <<vvars, cvars, pvars, mvars, gvars>>

\* Steps 6-7 of run r: validate; raise, or write the file in the run's
\* output directory and return.
RunValidateAndSave(r) ==
    /\ rpc[r] = "generated"
    /\ LET validation == RunValidation(rConfig[r])
           warnings == rWarnings[WarningsList(r)] \o ValidationWarnings(rConfig[r])
           path == <<r, BuildOutputPath(rMatch[r].layer.number, rInput[r].request.mode)>>
       IN IF SaveReached(validation)
          THEN /\ rpc' = [rpc EXCEPT ![r] = "done"]
               /\ rWarnings' = [rWarnings EXCEPT ![WarningsList(r)] = warnings]
               /\ rFiles' = {f \in rFiles : f.path # path}
                                \cup {[path |-> path, lines |-> GenerateHeader(rConfig[r])]}
               /\ rResult' = [rResult EXCEPT ![r] = [returned |-> TRUE, warnings |-> warnings]]
               /\ UNCHANGED rError
          ELSE /\ rpc' = [rpc EXCEPT ![r] = "raised"]
               /\ rError' = [rError EXCEPT ![r] =
                                IF validation = "TypeError" THEN "TypeError"
                                ELSE "RuntimeError: Validation failed"]
               /\ rWarnings' = IF validation = "TypeError" THEN rWarnings
                               ELSE [rWarnings EXCEPT ![WarningsList(r)] = warnings]
               /\ UNCHANGED <<rFiles, rResult>>
    /\ UNCHANGED <<rInput, rMatch, rConfig>>
    /\ UNCHANGED <<vvars, cvars, pvars, mvars, gvars>>

InitR == RInit /\ VIdle /\ CIdle /\ PIdle /\ MIdle /\ GIdle
NextR ==
    \E r \in Runs :
        \/ RunParse(r)
        \/ RunMapLayers(r)
        \/ RunAdjust(r)
        \/ RunGenerate(r)
        \/ RunValidateAndSave(r)
SpecR == InitR /\ [][NextR]_vars

(***************************************************************************)
(* The claims.  What a claim calls a Gn / Mn command is a command line     *)
(* whose word is that letter and that number.                              *)
(***************************************************************************)
IsCommand(line, l, n) ==
    line.kind = "cmd" /\ line.letter = l /\ line.digits # <<>> /\ DigitsValue(line.digits) = n

IsG0G1Command(line) == IsCommand(line, "G", 0) \/ IsCommand(line, "G", 1)

IssuesAt(code, n) ==
    {k \in 1..Len(vResult.issues) :
        vResult.issues[k].code = code /\ vResult.issues[k].line_number = n}

IssuesOf(code) == {k \in 1..Len(vResult.issues) : vResult.issues[k].code = code}

Returned == vpc = "returned"

\* C2: in the default (in_air) mode every G28 line that names the Z axis gets one
\* ERROR issue Z_HOME with its 1-based line number and the result is not ok; a G28
\* line that does not name Z gets no Z_HOME issue.
C2_ZHomeReported ==
    (Returned /\ vMode = "default") =>
        \A k \in 1..Len(vLines) :
            IsCommand(vLines[k], "G", 28) =>
                IF vLines[k].Zletter
                THEN /\ Cardinality(IssuesAt("Z_HOME", k)) = 1
                     /\ \A i \in IssuesAt("Z_HOME", k) : vResult.issues[i].severity = "ERROR"
                     /\ ~vResult.ok
                ELSE IssuesAt("Z_HOME", k) = {}

C2_Witness ==
    /\ Returned /\ vMode = "default"
    /\ \E k, j \in 1..Len(vLines) :
          /\ IsCommand(vLines[k], "G", 28) /\ vLines[k].Zletter
          /\ IssuesAt("Z_HOME", k) # {}
          /\ IsCommand(vLines[j], "G", 28) /\ vLines[j].X /\ ~vLines[j].Zletter
          /\ IssuesAt("Z_HOME", j) = {}

\* C3: validate called with resume_mode = "from_plate" returns a result that has no
\* Z_HOME issue, whatever G28 lines the input has.
C3_FromPlateAllowsZHome ==
    (vpc # "input" /\ vMode = "from_plate") =>
        /\ Returned
        /\ IssuesOf("Z_HOME") = {}

XYBearing == {k \in 1..Len(vLines) : IsG0G1Command(vLines[k]) /\ (vLines[k].X \/ vLines[k].Y)}
ZBearing == {k \in 1..Len(vLines) : IsG0G1Command(vLines[k]) /\ vLines[k].Znum}
Least(S) == CHOOSE k \in S : \A j \in S : k <= j

\* C4: exactly one XY_BEFORE_Z error, at the line of the first G0/G1 command bearing
\* X or Y, if and only if there is such a command and no G0/G1 command bearing Z at
\* or before it; otherwise no XY_BEFORE_Z issue.
C4_XYBeforeZ ==
    Returned =>
        IF XYBearing # {} /\ \A j \in ZBearing : j > Least(XYBearing)
        THEN /\ Cardinality(IssuesOf("XY_BEFORE_Z")) = 1
             /\ \A i \in IssuesOf("XY_BEFORE_Z") :
                   /\ vResult.issues[i].line_number = Least(XYBearing)
                   /\ vResult.issues[i].severity = "ERROR"
        ELSE IssuesOf("XY_BEFORE_Z") = {}

\* A heater command with a strictly positive target, given with S or with R.
PositiveTarget(line) == (line.Snum /\ line.Sval > 0) \/ (line.Rnum /\ line.Rval > 0)
BedHeaterLines ==
    {k \in 1..Len(vLines) :
        /\ IsCommand(vLines[k], "M", 140) \/ IsCommand(vLines[k], "M", 190)
        /\ PositiveTarget(vLines[k])}
NozzleHeaterLines ==
    {k \in 1..Len(vLines) :
        /\ IsCommand(vLines[k], "M", 104) \/ IsCommand(vLines[k], "M", 109)
        /\ PositiveTarget(vLines[k])}

MissingReported(code) ==
    /\ Cardinality(IssuesOf(code)) = 1
    /\ \A i \in IssuesOf(code) :
          vResult.issues[i].severity = "ERROR" /\ vResult.issues[i].line_number = 0

\* C5: MISSING_BED_TEMP (error, line 0) is reported if and only if no M140/M190 with
\* a strictly positive target occurs, MISSING_NOZZLE_TEMP if and only if no M104/M109
\* with a strictly positive target occurs; either makes the result not ok.
C5_MissingTemps ==
    Returned =>
        /\ IF BedHeaterLines = {} THEN MissingReported("MISSING_BED_TEMP")
           ELSE IssuesOf("MISSING_BED_TEMP") = {}
        /\ IF NozzleHeaterLines = {} THEN MissingReported("MISSING_NOZZLE_TEMP")
           ELSE IssuesOf("MISSING_NOZZLE_TEMP") = {}
        /\ (BedHeaterLines = {} \/ NozzleHeaterLines = {}) => ~vResult.ok

\* C6: lines whose heater commands give their positive targets with R are reported
\* with neither MISSING_BED_TEMP nor MISSING_NOZZLE_TEMP.
C6_RParameterAccepted ==
    (/\ Returned
     /\ \E k \in BedHeaterLines : vLines[k].Rnum
     /\ \E k \in NozzleHeaterLines : vLines[k].Rnum)
    => /\ IssuesOf("MISSING_BED_TEMP") = {}
       /\ IssuesOf("MISSING_NOZZLE_TEMP") = {}

\* The line is after a comment that ends the header.
AfterHeader(k) ==
    \E j \in 1..(k - 1) :
        /\ vLines[j].kind = "comment"
        /\ vLines[j].text \in {EndHeaderText, ResumeBannerText}

\* C7: every G0/G1 command after the end of the header that sets Z below
\* resume_z - 0.5 mm gets one Z_COLLISION issue with its line number; a move that
\* sets Z to resume_z - 0.5 mm or higher, and a move inside the header, gets none;
\* a Z_COLLISION issue is always a WARNING.
C7_ZCollisionWarning ==
    Returned =>
        /\ \A k \in ZBearing :
              IF AfterHeader(k) /\ vLines[k].Zval < vResumeZ - CollisionMargin
              THEN Cardinality(IssuesAt("Z_COLLISION", k)) = 1
              ELSE IssuesAt("Z_COLLISION", k) = {}
        /\ \A i \in IssuesOf("Z_COLLISION") : vResult.issues[i].severity = "WARNING"

C7_Witness ==
    /\ Returned
    /\ \E k, j \in ZBearing :
          /\ AfterHeader(k) /\ vLines[k].Zval < vResumeZ - CollisionMargin
          /\ IssuesAt("Z_COLLISION", k) # {}
          /\ AfterHeader(j) /\ vLines[j].Zval = vResumeZ - CollisionMargin
          /\ IssuesAt("Z_COLLISION", j) = {}

Count(seq, e) == Cardinality({i \in 1..Len(seq) : seq[i] = e})

\* C8: ok holds if and only if no issue has severity ERROR, so warnings alone leave
\* ok true; every issue is in exactly one of the warnings and errors views.
C8_OkIffNoError ==
    Returned =>
        /\ vResult.ok <=> \A k \in 1..Len(vResult.issues) : vResult.issues[k].severity # "ERROR"
        /\ Len(vResult.warnings) + Len(vResult.errors) = Len(vResult.issues)
        /\ \A k \in 1..Len(vResult.issues) :
              Count(vResult.warnings, vResult.issues[k]) + Count(vResult.errors, vResult.issues[k])
                  = Count(vResult.issues, vResult.issues[k])
        /\ \A k \in 1..Len(vResult.warnings) : vResult.warnings[k].severity = "WARNING"
        /\ \A k \in 1..Len(vResult.errors) : vResult.errors[k].severity = "ERROR"

C8_Witness ==
    /\ Returned
    /\ vResult.ok
    /\ vResult.warnings # <<>>
    /\ \A k \in 1..Len(vResult.issues) :
          vResult.issues[k].code \in {"UNUSUAL_G", "UNUSUAL_M", "Z_COLLISION"}

\* The selector names no layer: an absent layer number, or a Z further than the
\* tolerance from every layer.
LookupFails ==
    IF cRequest.kind = "int"
    THEN \A i \in 1..Len(cLayers) : cLayers[i].number # cRequest.selector
    ELSE \A i \in 1..Len(cLayers) : Abs(cRequest.selector - cLayers[i].z_height) > ToleranceMm

RunStarted == cpc \notin {"idle", "parsed"}

\* C1: an output file exists only if parsing found a layer, the selector was resolved
\* and validation reported ok; a run that found no layers, failed the lookup or did
\* not get an ok validation has raised and has written no file.
C1_WriteOnlyAfterValidation ==
    /\ cFile # {} =>
          /\ cLayers # <<>>
          /\ ~LookupFails
          /\ cMatch # NoMatch
          /\ cValidation = "ok"
    /\ cpc = "raised" => (cFile = {} /\ cReturn = NoLayer)
    /\ (RunStarted /\ (cLayers = <<>> \/ LookupFails)) => (cpc = "raised" /\ cFile = {})
    /\ cValidation \in {"errors", "TypeError"} => (cpc = "raised" /\ cFile = {})

C1_Witness ==
    /\ cLayers # <<>>
    /\ LookupFails
    /\ cRequest.kind = "float"
    /\ cpc = "raised"
    /\ cError = "ValueError"
    /\ cFile = {}

\* The layer by_layer_number(n) matches, by its place in the layer list.
MatchedIndex ==
    CHOOSE i \in 1..Len(cLayers) : cLayers[i] = ByNumberGet(cLayers, cRequest.selector)

InAirByNumber ==
    /\ cRequest.mode = "in_air"
    /\ cRequest.kind = "int"
    /\ ByNumberHas(cLayers, cRequest.selector)

Generated == cpc = "generated" \/ cValidation # "none"
Finished == cpc \in {"done", "raised"}

\* C9: in in_air mode with a layer-number selector n, the layer used for generation,
\* for the output file name and for the returned layer_match is the layer that
\* follows the matched layer n in source order.
C9_ShiftedByOne ==
    InAirByNumber =>
        /\ Generated =>
              /\ MatchedIndex + 1 <= Len(cLayers)
              /\ cGen = cLayers[MatchedIndex + 1]
        /\ Finished =>
              /\ cpc = "done"
              /\ cReturn = cLayers[MatchedIndex + 1]
              /\ BuildOutputPath(cLayers[MatchedIndex + 1].number, "in_air") \in cFile

\* C10: process(layer_num = n) in in_air mode on a file that has layer n returns a
\* ProcessResult whose resume_layer, the number of the layer the run generated
\* from, is n.
C10_ProcessResumeLayer ==
    (cApi = "process" /\ InAirByNumber) =>
        /\ Generated => cGen.number = cRequest.selector
        /\ Finished => (cpc = "done" /\ cReturn.number = cRequest.selector)

ConfigBuilt == cConfig # NoConfig

\* C11: in Controller.run, for bed and nozzle independently, a parsed temperature
\* that is not strictly positive makes the configuration use the fallback (60 / 200)
\* and puts exactly one warning of that fallback into the result's warnings; a
\* strictly positive parsed temperature is used as it is, with no fallback warning.
C11_TempFallback ==
    (Finished /\ ConfigBuilt) =>
        /\ cResult.returned
        /\ cConfig.bed_temp = IF cTemps.bed_temp > 0 THEN cTemps.bed_temp ELSE FallbackBedTemp
        /\ cConfig.nozzle_temp =
              IF cTemps.nozzle_temp > 0 THEN cTemps.nozzle_temp ELSE FallbackNozzleTemp
        /\ Count(cResult.warnings, BedFallbackWarning) = IF cTemps.bed_temp > 0 THEN 0 ELSE 1
        /\ Count(cResult.warnings, NozzleFallbackWarning) =
              IF cTemps.nozzle_temp > 0 THEN 0 ELSE 1

(***************************************************************************)
(* The parser's claims.  A ";LAYER:<n>" marker is a comment line made of   *)
(* the semicolon, the word LAYER in either case, a colon and an integer; a *)
(* ";LAYER_CHANGE" marker is the semicolon and that word; a Z-setting move *)
(* is a G0 or G1 command with a Z parameter.  Line k of pLines has the     *)
(* line index k - 1.                                                       *)
(***************************************************************************)
Parsed == ppc = "returned"

IsLayerMarker(line) ==
    line.kind = "comment" /\ line.lead = 0 /\ line.word = "LAYER" /\ line.num
IsLayerChangeMarker(line) ==
    line.kind = "comment" /\ line.lead = 0 /\ line.word = "LAYER_CHANGE"
IsZSettingMove(line) ==
    line.kind = "cmd" /\ line.word = "G" /\ line.digits \in {<<0>>, <<1>>} /\ line.Znum

\* The positions in pLines, ascending, of the markers and of the Z-setting moves.
Positions == [k \in 1..Len(pLines) |-> k]
MarkerLines == SelectSeq(Positions, LAMBDA k : IsLayerMarker(pLines[k]))
ChangeLines == SelectSeq(Positions, LAMBDA k : IsLayerChangeMarker(pLines[k]))
ZMoveLines == SelectSeq(Positions, LAMBDA k : IsZSettingMove(pLines[k]))

\* The line indices at which the layers of the result start, in list order.
LayerStarts == [i \in 1..Len(pResult.layers) |-> pResult.layers[i].start_line]
LineIndices(positions) == [i \in 1..Len(positions) |-> positions[i] - 1]
Range(seq) == {seq[i] : i \in 1..Len(seq)}

\* C12: the detection method is decided by a strict priority: with at least one
\* ;LAYER:<n> marker the method is comment_layer and the layers start at those
\* markers only, whatever else the text holds; ;LAYER_CHANGE markers give the
\* layers (method layer_change) exactly when there is no ;LAYER:<n> marker; Z moves
\* give the layers (method z_move) only when there is no marker of either kind.
C12_PriorityCascade ==
    Parsed =>
        /\ MarkerLines # <<>> =>
              /\ pResult.detection_method = "comment_layer"
              /\ LayerStarts = LineIndices(MarkerLines)
        /\ (MarkerLines = <<>> /\ ChangeLines # <<>>) =>
              /\ pResult.detection_method = "layer_change"
              /\ LayerStarts = LineIndices(ChangeLines)
        /\ pResult.detection_method = "layer_change" =>
              (MarkerLines = <<>> /\ ChangeLines # <<>>)
        /\ pResult.detection_method = "z_move" =>
              /\ MarkerLines = <<>> /\ ChangeLines = <<>>
              /\ Range(LayerStarts) \subseteq Range(LineIndices(ZMoveLines))

\* C12: a parse of a text that holds a ;LAYER:<n> marker, a ;LAYER_CHANGE marker
\* placed before it, and a Z-setting move
C12_Witness ==
    /\ Parsed
    /\ MarkerLines # <<>> /\ ChangeLines # <<>> /\ ZMoveLines # <<>>
    /\ ChangeLines[1] < MarkerLines[1]
    /\ pResult.detection_method = "comment_layer"

\* C13: a text with N >= 1 comment lines of the form ;LAYER:<integer> parses to
\* exactly N layers with method comment_layer; the i-th layer has the number
\* written in the i-th marker and that marker's line index as start_line.
C13_OneLayerPerMarker ==
    (Parsed /\ MarkerLines # <<>>) =>
        /\ pResult.detection_method = "comment_layer"
        /\ Len(pResult.layers) = Len(MarkerLines)
        /\ \A i \in 1..Len(MarkerLines) :
              /\ pResult.layers[i].number = pLines[MarkerLines[i]].val
              /\ pResult.layers[i].start_line = MarkerLines[i] - 1

\* C13: a parse of three markers whose numbers are not in ascending order
C13_Witness ==
    /\ Parsed
    /\ Len(MarkerLines) = 3
    /\ Len(pResult.layers) = 3
    /\ pResult.layers[1].number > pResult.layers[2].number

\* The positions of the Z-setting moves at or after / before the line index start.
ZMovesFrom(start) == {k \in Range(ZMoveLines) : k - 1 >= start}
ZMovesBefore(start) == {k \in Range(ZMoveLines) : k - 1 < start}
Greatest(S) == CHOOSE k \in S : \A j \in S : k >= j

\* C14: with comment_layer detection a layer's z_height is the Z of the nearest
\* G0/G1 Z-setting move at or after the layer's marker line, and, when no Z-setting
\* move follows the marker, the Z of the last Z-setting move before it.
C14_BackfilledZ ==
    (Parsed /\ pResult.detection_method = "comment_layer") =>
        \A i \in 1..Len(pResult.layers) :
            LET layer == pResult.layers[i]
                from == ZMovesFrom(layer.start_line)
                before == ZMovesBefore(layer.start_line)
            IN /\ from # {} => layer.z_height = pLines[Least(from)].Zval
               /\ (from = {} /\ before # {}) => layer.z_height = pLines[Greatest(before)].Zval

ZMoveDetected == Parsed /\ pResult.detection_method = "z_move"

\* A layer of the result starts at the line at position k.
StartsLayer(k) == \E i \in 1..Len(pResult.layers) : pResult.layers[i].start_line = k - 1

\* The Z of the i-th Z-setting move, and the Z set by the Z-setting move before
\* it (the parser's initial Z for the first).
MoveZ(i) == pLines[ZMoveLines[i]].Zval
PrevMoveZ(i) == IF i = 1 THEN InitialCurrentZ ELSE MoveZ(i - 1)

\* The Z of the layer started last before the line at position k (the parser's
\* initial value before the first layer).
LastLayerZ(k) ==
    LET earlier == {i \in 1..Len(pResult.layers) : pResult.layers[i].start_line < k - 1}
    IN IF earlier = {} THEN InitialPrevZ ELSE pResult.layers[Greatest(earlier)].z_height

IncreasingZMoves ==
    /\ Parsed
    /\ MarkerLines = <<>> /\ ChangeLines = <<>>
    /\ ZMoveLines # <<>>
    /\ \A i \in 2..Len(ZMoveLines) : MoveZ(i) > MoveZ(i - 1)

\* One layer per Z-setting move, in order, at the move's line and Z; method z_move.
OneLayerPerZMove ==
    /\ pResult.detection_method = "z_move"
    /\ Len(pResult.layers) = Len(ZMoveLines)
    /\ \A i \in 1..Len(ZMoveLines) :
          /\ pResult.layers[i].start_line = ZMoveLines[i] - 1
          /\ pResult.layers[i].z_height = MoveZ(i)
    /\ \A i \in 2..Len(pResult.layers) :
          pResult.layers[i].z_height > pResult.layers[i - 1].z_height

C17_EmptyIffNone ==
    Parsed => (pResult.layers = <<>> <=> pResult.detection_method = "none")

\* C18: in every parse result with a non-empty layer list, whatever the detection
\* method: start_line is strictly ascending along the list, every layer but the
\* last ends on the line before the next layer's start, the last layer ends on the
\* last line of the text, and every layer has start_line <= end_line.
C18_LayerLineRanges ==
    (Parsed /\ pResult.layers # <<>>) =>
        LET layers == pResult.layers
            n == Len(layers)
        IN /\ \A i \in 1..(n - 1) :
                 /\ layers[i].start_line < layers[i + 1].start_line
                 /\ layers[i].end_line = layers[i + 1].start_line - 1
           /\ layers[n].end_line = Len(pLines) - 1
           /\ \A i \in 1..n : layers[i].start_line <= layers[i].end_line

\* C18: a parse with two layers or more whose first layer spans several lines and
\* does not start on the first line of the text
C18_Witness ==
    /\ Parsed
    /\ Len(pResult.layers) >= 2
    /\ pResult.layers[1].start_line > 0
    /\ pResult.layers[1].end_line > pResult.layers[1].start_line

(***************************************************************************)
(* The temperatures.  A command-derived detection is a heater M-code with  *)
(* an S or R target (M140/M190 bed, M104/M109 nozzle), a                   *)
(* SET_HEATER_TEMPERATURE or TEMPERATURE_WAIT naming a bed or extruder     *)
(* device, or a macro with a BED= / EXTRUDER= parameter; comment metadata  *)
(* is a comment "key = number" with one of the slicer keys.                *)
(***************************************************************************)
KlipperWords == {"SET_HEATER_TEMPERATURE", "TEMPERATURE_WAIT"}
IsMacro(line) == line.kind = "cmd" /\ line.word \notin ({"G", "M"} \cup KlipperWords)

IsBedCommand(line) ==
    /\ line.kind = "cmd"
    /\ \/ line.word = "M" /\ line.digits \in {<<1, 4, 0>>, <<1, 9, 0>>} /\ line.num
       \/ line.word \in KlipperWords /\ line.device = "HEATER_BED" /\ line.num
       \/ IsMacro(line) /\ line.Bnum
BedTarget(line) == IF IsMacro(line) THEN line.Bval ELSE line.val

IsNozzleCommand(line) ==
    /\ line.kind = "cmd"
    /\ \/ line.word = "M" /\ line.digits \in {<<1, 0, 4>>, <<1, 0, 9>>} /\ line.num
       \/ line.word \in KlipperWords /\ line.device = "EXTRUDER" /\ line.num
       \/ IsMacro(line) /\ line.Enum
NozzleTarget(line) == IF IsMacro(line) THEN line.Eval ELSE line.val

IsBedComment(line) == line.kind = "comment" /\ line.word \in CommentBedKeys /\ line.num
IsNozzleComment(line) == line.kind = "comment" /\ line.word \in CommentNozzleKeys /\ line.num

PositiveBedCommands ==
    SelectSeq(Positions, LAMBDA k : IsBedCommand(pLines[k]) /\ BedTarget(pLines[k]) > 0)
PositiveNozzleCommands ==
    SelectSeq(Positions, LAMBDA k : IsNozzleCommand(pLines[k]) /\ NozzleTarget(pLines[k]) > 0)
PositiveBedComments ==
    SelectSeq(Positions, LAMBDA k : IsBedComment(pLines[k]) /\ pLines[k].val > 0)
PositiveNozzleComments ==
    SelectSeq(Positions, LAMBDA k : IsNozzleComment(pLines[k]) /\ pLines[k].val > 0)

Last(seq) == seq[Len(seq)]

\* C19: for each heater the final temperature is the target of the last
\* command-derived detection with a strictly positive target, if the text has one;
\* otherwise the first strictly positive comment-metadata value; otherwise 0.  So
\* a target of 0 or below never changes the value, and comment metadata never
\* overrides a value set by a command.
C19_FinalTemps ==
    Parsed =>
        /\ pResult.state.bed_temp =
              IF PositiveBedCommands # <<>> THEN BedTarget(pLines[Last(PositiveBedCommands)])
              ELSE IF PositiveBedComments # <<>> THEN pLines[PositiveBedComments[1]].val
              ELSE 0
        /\ pResult.state.nozzle_temp =
              IF PositiveNozzleCommands # <<>>
              THEN NozzleTarget(pLines[Last(PositiveNozzleCommands)])
              ELSE IF PositiveNozzleComments # <<>> THEN pLines[PositiveNozzleComments[1]].val
              ELSE 0

\* C19: a parse of a positive nozzle comment value, then a positive nozzle command,
\* then a nozzle command with a target of 0 or below
C19_Witness ==
    /\ Parsed
    /\ Len(pLines) = 3
    /\ IsNozzleComment(pLines[1]) /\ pLines[1].val > 0
    /\ IsNozzleCommand(pLines[2]) /\ NozzleTarget(pLines[2]) > 0
    /\ IsNozzleCommand(pLines[3]) /\ NozzleTarget(pLines[3]) <= 0
    /\ pResult.state.nozzle_temp = NozzleTarget(pLines[2])

(***************************************************************************)
(* The layer mapper's claims.                                              *)
(***************************************************************************)
\* The step is a call by_layer_number(n).
ByLayerNumberStep == mCall'.method = "by_layer_number"

\* C20: by_layer_number(n) returns a match if and only if some layer of the list
\* has number n; the returned layer is a layer of the list with number n, with
\* exact = true, delta_mm = 0 and no warning; when no layer has number n the call
\* raises KeyError; in both cases the mapper is left unchanged.
C20_ByLayerNumber ==
    [][ByLayerNumberStep =>
          LET n == mCall'.arg
              present == \E i \in 1..Len(mLayers) : mLayers[i].number = n
          IN /\ mOutcome' = "returned" <=> present
             /\ present =>
                   /\ mResult'.layer.number = n
                   /\ \E i \in 1..Len(mLayers) : mLayers[i] = mResult'.layer
                   /\ mResult'.exact /\ mResult'.delta_mm = 0 /\ ~mResult'.warning
             /\ ~present => mOutcome' = "KeyError"
             /\ mLayers' = mLayers]_vars

\* C20: a by_layer_number call for a number no layer has, on a mapper over
\* several layers, has raised KeyError
C20_Witness ==
    /\ mCall.method = "by_layer_number"
    /\ Len(mLayers) >= 2
    /\ \A i \in 1..Len(mLayers) : mLayers[i].number # mCall.arg
    /\ mOutcome = "KeyError"

\* The distance from z to the nearest layer: the least |z - z_height|.
MinDistance(layers, z) ==
    LET ds == {Abs(z - layers[i].z_height) : i \in 1..Len(layers)}
    IN CHOOSE d \in ds : \A e \in ds : d <= e

\* C21: by_z_height(z) has three outcomes decided by d = z minus the Z of the
\* nearest layer: d = 0 returns an exact match with delta_mm 0 and no warning;
\* 0 < |d| <= tolerance returns a non-exact match with delta_mm = d (signed) and
\* a warning; |d| > tolerance raises ValueError.  |d| = tolerance is accepted.
C21_ByZHeightOutcomes ==
    mCall.method = "by_z_height" =>
        LET z == mCall.arg
            dmin == MinDistance(mLayers, z)
        IN /\ dmin = 0 =>
                 /\ mOutcome = "returned"
                 /\ mResult.exact /\ mResult.delta_mm = 0 /\ ~mResult.warning
           /\ (0 < dmin /\ dmin <= ToleranceMm) =>
                 /\ mOutcome = "returned"
                 /\ ~mResult.exact /\ mResult.warning
                 /\ mResult.delta_mm = z - mResult.layer.z_height
                 /\ Abs(mResult.delta_mm) = dmin
           /\ dmin > ToleranceMm => mOutcome = "ValueError"

\* C21: a by_z_height call whose z lies exactly the tolerance away from the
\* nearest layer has returned a non-exact match
C21_Witness ==
    /\ mCall.method = "by_z_height"
    /\ MinDistance(mLayers, mCall.arg) = ToleranceMm
    /\ mOutcome = "returned"
    /\ ~mResult.exact
    /\ mResult.delta_mm < 0

\* The smallest and the largest element of a non-empty set of numbers.
Smallest(S) == CHOOSE x \in S : \A y \in S : x <= y
Largest(S) == CHOOSE x \in S : \A y \in S : x >= y
NumbersOf(layers) == {layers[i].number : i \in 1..Len(layers)}
HeightsOf(layers) == {layers[i].z_height : i \in 1..Len(layers)}

\* C22: for any non-empty layer list (numbers need not be contiguous or
\* ascending), min_layer and max_layer are the smallest and the largest layer
\* number of the list, min_z and max_z the smallest and the largest z_height,
\* and layer_count is the length of the list.
C22_Properties ==
    /\ mCall.method = "min_layer" => mResult = Smallest(NumbersOf(mLayers))
    /\ mCall.method = "max_layer" => mResult = Largest(NumbersOf(mLayers))
    /\ mCall.method = "min_z" => mResult = Smallest(HeightsOf(mLayers))
    /\ mCall.method = "max_z" => mResult = Largest(HeightsOf(mLayers))
    /\ mCall.method = "layer_count" => mResult = Len(mLayers)

\* C22, the part that holds on every list: min_z, max_z and layer_count
C22_HeightsAndCount ==
    /\ mCall.method = "min_z" => mResult = Smallest(HeightsOf(mLayers))
    /\ mCall.method = "max_z" => mResult = Largest(HeightsOf(mLayers))
    /\ mCall.method = "layer_count" => mResult = Len(mLayers)

\* The positions of the list whose layer lies at the least distance from z.
NearestPositions(layers, z) ==
    {i \in 1..Len(layers) : Abs(z - layers[i].z_height) = MinDistance(layers, z)}

\* C28: by_z_height(z) selects a layer whose |z - z_height| is minimal over all
\* layers; when several layers attain the minimum it selects the one that comes
\* first in ascending-Z order: the lower of two layers z lies midway between,
\* and of layers with equal Z the one earlier in the list.
C28_NearestFirstInZOrder ==
    (mCall.method = "by_z_height" /\ mOutcome = "returned") =>
        LET near == NearestPositions(mLayers, mCall.arg)
        IN \E k \in near :
              /\ mResult.layer = mLayers[k]
              /\ \A j \in near :
                    \/ mLayers[k].z_height < mLayers[j].z_height
                    \/ mLayers[k].z_height = mLayers[j].z_height /\ k <= j

\* C28: a by_z_height call for a z midway between two layers, the higher of
\* which comes first in the list, with a second layer at the lower height, has
\* returned a match
C28_Witness ==
    /\ mCall.method = "by_z_height"
    /\ mOutcome = "returned"
    /\ LET near == NearestPositions(mLayers, mCall.arg)
       IN /\ \E i, j \in near : i < j /\ mLayers[i].z_height > mLayers[j].z_height
          /\ \E i, j \in near : i < j /\ mLayers[i].z_height = mLayers[j].z_height
                                    /\ mLayers[i].z_height < mCall.arg

(***************************************************************************)
(* The validator's claims, continued.                                      *)
(***************************************************************************)
\* A G28 command with no axis letter: home all axes.
BareG28(line) == IsCommand(line, "G", 28) /\ ~line.X /\ ~line.Y /\ ~line.Zletter

\* C29: validate raises Z_HOME only for a G28 command line that contains the
\* letter Z; a bare G28 gets no Z_HOME issue, so lines that hold a bare G28 and
\* no G28 naming Z, and that pass the temperature and the Z-before-XY checks,
\* are reported ok by a call without resume_mode (in_air).
C29_BareG28Ok ==
    (Returned /\ vMode = "default") =>
        /\ \A i \in IssuesOf("Z_HOME") :
              LET n == vResult.issues[i].line_number
              IN n \in 1..Len(vLines) /\ IsCommand(vLines[n], "G", 28) /\ vLines[n].Zletter
        /\ \A k \in 1..Len(vLines) : BareG28(vLines[k]) => IssuesAt("Z_HOME", k) = {}
        /\ (/\ \E k \in 1..Len(vLines) : BareG28(vLines[k])
            /\ \A k \in 1..Len(vLines) : IsCommand(vLines[k], "G", 28) => ~vLines[k].Zletter
            /\ IssuesOf("MISSING_BED_TEMP") = {} /\ IssuesOf("MISSING_NOZZLE_TEMP") = {}
            /\ IssuesOf("XY_BEFORE_Z") = {})
           => vResult.ok

\* C29: lines that hold a bare G28 and both temperature commands have been
\* reported ok
C29_Witness ==
    /\ Returned /\ vMode = "default"
    /\ \E k \in 1..Len(vLines) : BareG28(vLines[k])
    /\ IssuesOf("MISSING_BED_TEMP") = {} /\ IssuesOf("MISSING_NOZZLE_TEMP") = {}
    /\ vResult.ok

\* The positions of the comment lines that arm the Z-collision check.
HeaderEndMarkers ==
    {j \in 1..Len(vLines) :
        /\ vLines[j].kind = "comment"
        /\ vLines[j].text = EndHeaderText \/ StartsWithResumeBanner(vLines[j].text)}

\* C30: the Z-collision check is armed only by a comment line equal to
\* "; --- End Resume Header ---" or starting with "; === Resume Print from
\* Layer": every Z_COLLISION issue is at a line after such a comment, and lines
\* with neither marker get no Z_COLLISION issue whatever Z their moves set;
\* once armed the check stays armed: every later G0/G1 command that sets Z below
\* resume_z - 0.5 mm gets a Z_COLLISION issue, whatever lines lie in between.
C30_CollisionArming ==
    Returned =>
        /\ \A i \in IssuesOf("Z_COLLISION") :
              \E j \in HeaderEndMarkers : j < vResult.issues[i].line_number
        /\ HeaderEndMarkers = {} => IssuesOf("Z_COLLISION") = {}
        /\ \A j \in HeaderEndMarkers : \A k \in ZBearing :
              (j < k /\ vLines[k].Zval < vResumeZ - CollisionMargin)
                  => IssuesAt("Z_COLLISION", k) # {}

\* C30: a G1 move below the margin that follows an end-of-header marker and
\* then a header-start comment has its Z_COLLISION issue
C30_Witness ==
    /\ Returned
    /\ \E j \in HeaderEndMarkers : \E k \in ZBearing :
          /\ j + 1 < k
          /\ vLines[j + 1] = Comment(BeginHeaderText)
          /\ IssuesAt("Z_COLLISION", k) # {}

\* C30: lines without a marker whose G1 move sets Z below the margin have
\* been validated
C30_UnarmedReached ==
    /\ Returned
    /\ HeaderEndMarkers = {}
    /\ \E k \in ZBearing : vLines[k].Zval < vResumeZ - CollisionMargin

(***************************************************************************)
(* The generator's claims.                                                 *)
(***************************************************************************)
GenerateReturned == gpc = "returned"

\* A homing command that names the Z axis.
HomesZ(line) == IsCommand(line, "G", 28) /\ line.Zletter

\* The output lines that come from the header: all but the copied body.
HeaderLength == Len(gOut) - (Len(gLines) - gStart)

\* C23, the header part: no line of the generated header homes Z in in_air mode
C23_HeaderNoZHome ==
    (GenerateReturned /\ gConfig.resume_mode = "in_air") =>
        \A k \in 1..HeaderLength : ~HomesZ(gOut[k])

\* C23: for every in_air-mode generation, no line of the output is a homing
\* command (G28) that contains a Z-axis parameter.
C23_NoZHomeInOutput ==
    (GenerateReturned /\ gConfig.resume_mode = "in_air") =>
        \A k \in 1..Len(gOut) : ~HomesZ(gOut[k])

OutXYBearing == {k \in 1..Len(gOut) : IsG0G1Command(gOut[k]) /\ (gOut[k].X \/ gOut[k].Y)}
OutZBearing == {k \in 1..Len(gOut) : IsG0G1Command(gOut[k]) /\ gOut[k].Znum}
LiftZ == gConfig.resume_z + gConfig.z_offset_mm + gConfig.safe_lift_mm

\* C24: in every generated output the header lifts to resume Z + Z offset +
\* safe-lift height before any XY travel, so the first Z-bearing G0/G1 line is
\* at or before the first XY-bearing G0/G1 line and validate reports no
\* XY_BEFORE_Z issue on the output.
C24_LiftBeforeTravel ==
    GenerateReturned =>
        /\ \E k \in 1..HeaderLength :
              /\ IsG0G1Command(gOut[k]) /\ gOut[k].Znum /\ gOut[k].Zval = LiftZ
              /\ \A j \in OutXYBearing : k < j
        /\ OutZBearing # {}
        /\ OutXYBearing # {} => Least(OutZBearing) <= Least(OutXYBearing)
        /\ LET issues == Validate(gOut, gConfig.resume_z + gConfig.z_offset_mm)
           IN \A i \in 1..Len(issues) : issues[i].code # "XY_BEFORE_Z"

\* C24: an output whose body starts with an XY move that sets no Z has been
\* generated
C24_Witness ==
    /\ GenerateReturned
    /\ HeaderLength < Len(gOut)
    /\ gOut[HeaderLength + 1].X /\ IsG0G1Command(gOut[HeaderLength + 1])
    /\ ~gOut[HeaderLength + 1].Znum

\* C25: in from_plate mode the Z parameter of every body motion command is its
\* source value minus the resume Z, written with exactly 3 decimals, the rest
\* of the line being kept; every other body line, and in in_air mode every
\* body line, is the source line unchanged.
C25_BodyRebased ==
    GenerateReturned =>
        \A k \in 1..(Len(gLines) - gStart) :
            LET src == gLines[gStart + k]
                out == gOut[HeaderLength + k]
            IN IF gConfig.resume_mode = "from_plate" /\ IsG0G1Command(src) /\ src.Znum
               THEN /\ out.Zval = src.Zval - gConfig.resume_z
                    /\ out.Zdp = 3
                    /\ [out EXCEPT !.Zval = src.Zval, !.Zdp = src.Zdp] = src
               ELSE out = src

\* C25: a from_plate generation at resume Z 0.6 whose body has Z0.6 and then
\* Z0.9 has produced Z0.000 and Z0.300
C25_Witness ==
    /\ GenerateReturned
    /\ gConfig.resume_mode = "from_plate" /\ gConfig.resume_z = 60
    /\ \E k \in (HeaderLength + 1)..(Len(gOut) - 1) :
          /\ gLines[gStart + k - HeaderLength].Zval = 60
          /\ gOut[k].Zval = 0 /\ gOut[k].Zdp = 3
          /\ \E j \in (k + 1)..Len(gOut) :
                /\ gLines[gStart + j - HeaderLength].Zval = 90
                /\ gOut[j].Zval = 30 /\ gOut[j].Zdp = 3

\* C26, the generator part: the output of an in_air generation over the 3-layer
\* comment-marked file of the tests, configured with the Z of the layer it
\* resumes from, validates with zero errors.
C26_CleanOutputValidates ==
    (/\ GenerateReturned
     /\ gLines = CleanSource
     /\ gConfig.resume_mode = "in_air"
     /\ gConfig.resume_z = gLines[gStart + 2].Zval)
    => Ok(Validate(gOut, gConfig.resume_z + gConfig.z_offset_mm))

\* A 3-layer comment-marked source: layers 0, 1, 2 in source order, heights
\* not descending, both temperatures detected.
WellFormedSource ==
    /\ Len(cLayers) = 3
    /\ \A i \in 1..3 : cLayers[i].number = i - 1
    /\ \A i \in 1..2 : cLayers[i].z_height <= cLayers[i + 1].z_height
    /\ cTemps.bed_temp > 0 /\ cTemps.nozzle_temp > 0

\* C26: Controller.run in in_air mode on a well-formed 3-layer comment-marked
\* source with an existing layer number completes the parse, map, generate,
\* validate, write sequence: it returns a result whose validation is ok and
\* the output file exists.
C26_CleanRunCompletes ==
    (/\ Finished
     /\ WellFormedSource
     /\ cRequest.mode = "in_air"
     /\ cRequest.kind = "int"
     /\ ByNumberHas(cLayers, cRequest.selector))
    => /\ cpc = "done"
       /\ cValidation = "ok"
       /\ cResult.returned
       /\ cFile # {}

(***************************************************************************)
(* The claim about concurrent runs.                                        *)
(***************************************************************************)
\* What one run on the given input ends with when nothing else runs: how it
\* ended, its exception, match, config and warnings, its result and the file
\* it wrote (a set of at most one file, named within the run's directory).
RunAlone(inp) ==
    LET w0 == Append1(<<>>, AutoProfile(inp.request), AutoProfileWarning)
        none == [pc |-> "raised", error |-> "RuntimeError: No layers detected",
                 match |-> NoMatch, config |-> NoConfig, warnings |-> w0,
                 result |-> NoRunResult, files |-> {}]
    IN IF inp.layers = <<>> THEN none
       ELSE LET m == ResolveLayer(inp.layers, inp.request)
            IN IF m.raised # "none" THEN [none EXCEPT !.error = m.raised]
               ELSE LET w1 == Append1(w0, m.match.warning, FuzzyMatchWarning)
                        match == InAirAdjust(inp.layers, inp.request, m.match)
                        w2 == Append1(w1, InAirShifts(inp.layers, inp.request, m.match),
                                      InAirWarning)
                        config == BuildConfig(match, inp.temps, inp.request)
                        w3 == w2 \o FallbackWarnings(inp.temps)
                        validation == RunValidation(config)
                        w4 == w3 \o ValidationWarnings(config)
                    IN IF validation = "TypeError"
                       THEN [pc |-> "raised", error |-> "TypeError", match |-> match,
                             config |-> config, warnings |-> w3,
                             result |-> NoRunResult, files |-> {}]
                       ELSE IF validation = "errors"
                       THEN [pc |-> "raised", error |-> "RuntimeError: Validation failed",
                             match |-> match, config |-> config, warnings |-> w4,
                             result |-> NoRunResult, files |-> {}]
                       ELSE [pc |-> "done", error |-> "none", match |-> match,
                             config |-> config, warnings |-> w4,
                             result |-> [returned |-> TRUE, warnings |-> w4],
                             files |-> {[name |-> BuildOutputPath(match.layer.number,
                                                                  inp.request.mode),
                                         lines |-> GenerateHeader(config)]}]

\* What run r has ended with, read from the state.
RunOutcome(r) ==
    [pc |-> rpc[r], error |-> rError[r], match |-> rMatch[r], config |-> rConfig[r],
     warnings |-> rWarnings[WarningsList(r)], result |-> rResult[r],
     files |-> {[name |-> f.path[2], lines |-> f.lines] : f \in {g \in rFiles : g.path[1] = r}}]

RunEnded(r) == rpc[r] \in {"done", "raised"}

====
